---------------------------- MODULE Spec2Model ----------------------------
(***************************************************************************)
(* Auction engine: wallet ledger, Redis lock, Bull job queue, bid          *)
(* admission (BidService.placeBid), round settlement                       *)
(* (RoundService.processRound) and auction start                           *)
(* (AuctionService.startAuction), executed by concurrent tasks over one    *)
(* MongoDB database.                                                       *)
(*                                                                         *)
(* MongoDB multi-document transactions are modelled as snapshot isolation: *)
(* the body reads the database as it is when the transaction starts, the   *)
(* writes are buffered in the task, and the commit fails with a write      *)
(* conflict when a document of the write set was written by somebody else  *)
(* after the transaction started.  Writes outside a transaction apply at   *)
(* once.  Time is an integer clock; durations are scaled down.             *)
(***************************************************************************)
EXTENDS Integers, Sequences, FiniteSets, TLC

(* ------------------------------ bounds -------------------------------- *)
MaxTime == 2
(* the horizon of the runs that follow the auction to its last round *)
LongTime == 3
(* the horizon of the runs with four bidders *)
SnipeTime == 1
MaxDeposits == 1
MaxExpiries == 1
(* settlements of rounds of the second auction *)
MaxOtherSettlements == 1
(* commits that fail with a transient error *)
MaxFaults == 1
MaxAmount == 1
DepositAmount == 1
(* the count of committed settlements of a round saturates here *)
MaxSettled == 2
(* opening balances of user 1 and of user 2 *)
RichBalance == 2
PoorBalance == 1

(* the round documents an auction can have: the largest totalRounds *)
MaxRounds == 3

(* messages of one kind that are told apart *)
MaxPublished == 3

(* attempts of withLock to set the key (the parameter retries) *)
MaxAttempts == 2

(* ------------------- auction parameters and config -------------------- *)
(* CreateAuctionInput of the auction, unless the run names its own.        *)
TotalItems == 2
TotalRounds == 2
ItemsPerRound == 1
MinBid == 1
FirstRoundDuration == 1
OtherRoundDuration == 1
AntiSnipingExtension == 1
(* the anti-sniping window of the runs that have one *)
ShortWindow == 1
AntiSnipingThreshold == 3
(* Bull's maxStalledCount, which the queue's options leave at its default *)
MaxStalledCount == 1

Users == 1..4
Tasks == {1, 2}
RoundIds == 1..MaxRounds
Amounts == 1..MaxAmount
None == 0

VARIABLES now, auction, rounds, users, bids, ledger, lock, lockOwner,
          ttlExceeded, jobs, task, deposited, accepted, settled, budget,
          published

vars == <<now, auction, rounds, users, bids, ledger, lock, lockOwner,
          ttlExceeded, jobs, task, deposited, accepted, settled, budget,
          published>>

(* config.auction.antiSnipingWindow, in the clock units of the run.       *)
AntiSnipingWindow == budget.window

(* ------------------------------ documents ----------------------------- *)
UserDoc(u) == <<"user", u>>
RoundDoc(r) == <<"round", r>>
BidDoc(r, u) == <<"bid", r, u>>
AuctionDoc == <<"auction">>

(* The open round of a second auction, in which the users also bid.       *)
OtherRound == MaxRounds + 1

(* The users who bid on the second auction.                               *)
OtherBidders == {1, 2}

BidKey(u) == <<"bidlock", u>>
OtherBidKey(u) == <<"bidlock2", u>>
RoundKey(r) == <<"roundlock", r>>
LockKeys == {BidKey(u) : u \in Users} \cup {OtherBidKey(u) : u \in Users}
            \cup {RoundKey(r) : r \in RoundIds}

NoRound == [status |-> "none", endAt |-> 0, originalEndAt |-> 0, winnersCount |-> 0]
NoJob == [state |-> "none", runAt |-> 0, holder |-> None, stalled |-> 0]

EmptyTxn == [stale |-> {}, wUsers |-> <<>>, wBids |-> <<>>, insBids |-> <<>>,
             wRounds |-> <<>>, wAuction |-> <<>>, entries |-> <<>>]

IdleTask == [pc |-> "idle", user |-> None, amount |-> 0, round |-> None,
             key |-> <<>>, acquired |-> FALSE, read |-> 0, next |-> None,
             fetched |-> {}, error |-> "none", txn |-> EmptyTxn,
             antiSnipingTriggered |-> FALSE, attempts |-> 0]

(* Messages are counted up to MaxPublished.                               *)
Counted(n) == IF n < MaxPublished THEN n ELSE MaxPublished

(* The messages the auction's room has been sent, counted by event and,  *)
(* for the round events, by the roundNumber they carry.                   *)
NothingPublished ==
    [roundEnd |-> [r \in RoundIds |-> 0], roundStart |-> [r \in RoundIds |-> 0],
     auctionStart |-> 0, auctionComplete |-> 0,
     bidNew |-> 0, antiSnipe |-> 0, leaderboard |-> 0]

Min(a, b) == IF a < b THEN a ELSE b
Max(a, b) == IF a > b THEN a ELSE b

RECURSIVE SumOver(_, _)
SumOver(S, f) == IF S = {} THEN 0
                 ELSE LET x == CHOOSE y \in S : TRUE
                      IN f[x] + SumOver(S \ {x}, f)

Range(f) == {f[x] : x \in DOMAIN f}

(* ---------------------- MongoDB transaction layer --------------------- *)
(* Documents a transaction writes.                                        *)
WriteSet(x) ==
    {UserDoc(u) : u \in DOMAIN x.wUsers}
    \cup {RoundDoc(r) : r \in DOMAIN x.wRounds}
    \cup {BidDoc(x.wBids[i].roundId, x.wBids[i].userId) : i \in DOMAIN x.wBids}
    \cup {BidDoc(b.roundId, b.userId) : b \in Range(x.insBids)}
    \cup (IF x.wAuction = <<>> THEN {} ELSE {AuctionDoc})

(* Mutation of WriteConflict: commits are not checked, the last writer  *)
(* wins.                                                                  *)
LastWriterWins(x) == FALSE

(* Mutation of WriteConflict: every commit fails.                         *)
AlwaysConflict(x) == TRUE

(* WriteConflict: a document of the write set was committed by another    *)
(* writer after this transaction took its snapshot.                       *)
WriteConflict(x) == x.stale \cap WriteSet(x) # {}

OpenTxnPcs == {"pb_commit", "pr_commit", "sa_commit", "ob_commit", "os_commit"}

(* The tasks after task t moved to record tr and the documents docs were  *)
(* committed: every other open transaction now sees docs as stale.        *)
TasksAfterWrite(t, tr, docs) ==
    [t2 \in Tasks |->
        IF t2 = t THEN tr
        ELSE IF task[t2].pc \in OpenTxnPcs
             THEN [task[t2] EXCEPT !.txn.stale = @ \cup docs]
             ELSE task[t2]]

UsersAfter(x) == [u \in Users |-> IF u \in DOMAIN x.wUsers THEN x.wUsers[u] ELSE users[u]]
RoundsAfter(x) == [r \in RoundIds |-> IF r \in DOMAIN x.wRounds THEN x.wRounds[r] ELSE rounds[r]]
BidsAfter(x) == [i \in 1..Len(bids) |-> IF i \in DOMAIN x.wBids THEN x.wBids[i] ELSE bids[i]]
                \o x.insBids
AuctionAfter(x) == IF x.wAuction = <<>> THEN auction ELSE x.wAuction[1]

(* The Transaction collection (the ledger), as the number of entries of   *)
(* each type for each user.                                               *)
LedgerTypes == {"deposit", "freeze", "win", "refund"}
Entry(u, ty) == [userId |-> u, type |-> ty]
CountEntries(es, u, ty) ==
    Cardinality({i \in DOMAIN es : es[i].userId = u /\ es[i].type = ty})
LedgerAfter(x) ==
    [u \in Users |-> [ty \in LedgerTypes |->
        ledger[u][ty] + CountEntries(x.entries, u, ty)]]

(* --------------------------- bid ranking ------------------------------ *)
(* Mutation of Before: the sort without createdAt as the tie-break.       *)
BeforeByAmountOnly(a, b) == a.amount > b.amount

(* sort({amount: -1, createdAt: 1}): a strictly precedes b.               *)
Before(a, b) == \/ a.amount > b.amount
                \/ (a.amount = b.amount /\ a.createdAt < b.createdAt)

ActiveBidsOf(bs, r) == {i \in 1..Len(bs) : bs[i].roundId = r /\ bs[i].status = "active"}

Perms(S) == {s \in [1..Cardinality(S) -> S] :
                \A i, j \in 1..Cardinality(S) : i # j => s[i] # s[j]}

(* The results the sorted query may return: bids equal in amount and      *)
(* createdAt come in an order the database chooses.                       *)
RankedOrders(bs, S) ==
    {s \in Perms(S) : \A i, j \in 1..Cardinality(S) : i < j => ~Before(bs[s[j]], bs[s[i]])}

(* Field f of the input b of a run, or d when the run does not name it.   *)
Input(b, f, d) == IF f \in DOMAIN b THEN b[f] ELSE d

(* The state after the auction was created (status pending) and the users *)
(* were funded with bal; b bounds the deposits and the TTL expiries and   *)
(* gives the time at which the run stops following the clock, the users   *)
(* who place bids, the anti-sniping window, the number of commits that    *)
(* fail with a transient error and the number of settlements of rounds    *)
(* of the second auction.                                                 *)
InitWith(bal, b) ==
    /\ now = 0
    /\ auction = [status |-> "pending", currentRound |-> 0,
                  distributedItems |-> 0, avgPriceNum |-> 0,
                  totalItems |-> Input(b, "totalItems", TotalItems),
                  totalRounds |-> Input(b, "totalRounds", TotalRounds),
                  itemsPerRound |-> Input(b, "itemsPerRound", ItemsPerRound),
                  minBid |-> Input(b, "minBid", MinBid)]
    /\ rounds = [r \in RoundIds |-> NoRound]
    /\ users = [u \in Users |-> [balance |-> bal[u], frozenBalance |-> 0]]
    /\ bids = <<>>
    /\ ledger = [u \in Users |-> [ty \in LedgerTypes |-> 0]]
    /\ lock = [k \in LockKeys |-> FALSE]
    /\ lockOwner = [k \in LockKeys |-> None]
    /\ ttlExceeded = {}
    /\ jobs = [r \in RoundIds |-> NoJob]
    /\ task = [t \in Tasks |-> IdleTask]
    /\ deposited = [u \in Users |-> bal[u]]
    /\ accepted = [r \in RoundIds |-> [u \in Users |-> 0]]
    /\ settled = [r \in RoundIds |-> 0]
    /\ budget = b
    /\ published = NothingPublished

Init == InitWith(<<RichBalance, PoorBalance, 0, 0>>,
                 [deposits |-> 0, expiries |-> 0, horizon |-> MaxTime,
                  bidders |-> {1, 2}, window |-> 0, faults |-> 0, settlements |-> 0])

(* Tasks are interchangeable: a new operation runs on the first idle one.  *)
FirstIdle(t) == task[t].pc = "idle" /\ \A t2 \in Tasks : task[t2].pc = "idle" => t <= t2

(* ------------------------------- clock -------------------------------- *)
(* Time is counted from the start of the auction: nothing depends on the  *)
(* clock while the auction is pending.                                    *)
Tick ==
    /\ now < budget.horizon
    /\ auction.status # "pending"
    /\ now' = now + 1
    /\ UNCHANGED <<auction, rounds, users, bids, lock, lockOwner, ttlExceeded,
                   jobs, task, deposited, accepted, settled, budget,
                   ledger, published>>

(* ---------------------- Lock (Redis SET NX EX) ------------------------ *)
ReleasePcs == {"pb_release", "pr_release"}
FnPcs == {"pb_txn", "pb_commit", "pb_after", "pr_txn", "pr_commit", "pr_after", "pr_catch",
          "ob_txn", "ob_commit"}

(* AcquireWithoutNX is the mutation of CanAcquire that sets the key       *)
(* whether or not it exists.                                              *)
(* Lock.acquire: redis.set(key, '1', 'EX', ttl, 'NX') = OK iff the key is *)
(* not set.  withLock retries it; a caller that waits and then gets the   *)
(* key is a caller that arrives once the key is free.                     *)
AcquireWithoutNX(k) == TRUE
CanAcquire(k) == ~lock[k]
LockAfterAcquire(k) == [lock EXCEPT ![k] = TRUE]
OwnerAfterAcquire(t, k) == [lockOwner EXCEPT ![k] = t]

(* The key reaches its TTL while a holder is still inside fn.             *)
LockExpire(k) ==
    /\ lock[k]
    /\ budget.expiries > 0
    /\ lock' = [lock EXCEPT ![k] = FALSE]
    /\ lockOwner' = [lockOwner EXCEPT ![k] = None]
    /\ ttlExceeded' = ttlExceeded \cup {k}
    /\ budget' = [budget EXCEPT !.expiries = @ - 1]
    /\ UNCHANGED <<now, auction, rounds, users, bids, jobs, task,
                   deposited, accepted, settled,
                   ledger, published>>

(* Lock.release: if (this.acquired) redis.del(key).                       *)
LockAfterRelease(t) ==
    IF task[t].acquired THEN [lock EXCEPT ![task[t].key] = FALSE] ELSE lock
OwnerAfterRelease(t) ==
    IF task[t].acquired THEN [lockOwner EXCEPT ![task[t].key] = None] ELSE lockOwner

(* ------------------------ BalanceService.deposit ---------------------- *)
(* POST /users/me/deposit calls deposit without a session:                *)
(* User.findById, then user.balance += amount and user.save().            *)
DepositRead(t, u, a) ==
    /\ FirstIdle(t)
    /\ u \in budget.bidders
    /\ budget.deposits > 0
    /\ budget' = [budget EXCEPT !.deposits = @ - 1]
    /\ task' = [task EXCEPT ![t] = [IdleTask EXCEPT !.pc = "dp_save", !.user = u,
                                       !.amount = a, !.read = users[u].balance]]
    /\ UNCHANGED <<now, auction, rounds, users, bids, lock, lockOwner,
                   ttlExceeded, jobs, deposited, accepted, settled,
                   ledger, published>>

(* save() sends $set {balance: <value read> + amount}; Transaction.create  *)
(* then adds the ledger entry.                                            *)
DepositBalance(read, a) == read + a

DepositSave(t) ==
    /\ task[t].pc = "dp_save"
    /\ users' = [users EXCEPT ![task[t].user].balance =
                                  DepositBalance(task[t].read, task[t].amount)]
    /\ ledger' = [ledger EXCEPT ![task[t].user]["deposit"] = @ + 1]
    /\ deposited' = [deposited EXCEPT ![task[t].user] = @ + task[t].amount]
    /\ task' = TasksAfterWrite(t, IdleTask, {UserDoc(task[t].user)})
    /\ UNCHANGED <<now, auction, rounds, bids, lock, lockOwner, ttlExceeded,
                   jobs, accepted, settled, budget, published>>

(* ---------------------- AuctionService.startAuction ------------------- *)
(* Called by the start-auction job, by worker start-up and by the         *)
(* fallback poller; the auction's startAt is time 0.                      *)
FirstRound == [status |-> "active", endAt |-> now + FirstRoundDuration,
               originalEndAt |-> now + FirstRoundDuration,
               winnersCount |-> Min(auction.itemsPerRound, auction.totalItems)]

(* Mutation of IsPending: startAuction without the status check.          *)
AnyStatus(a) == TRUE

(* !auction || auction.status !== 'pending' is false.                     *)
IsPending(a) == a.status = "pending"

(* The body of startAuction's transaction on a pending auction: round 1   *)
(* is created and the auction set to active, in the session.              *)
StartingTask ==
    [IdleTask EXCEPT !.pc = "sa_commit",
       !.txn = [EmptyTxn EXCEPT
                  !.wRounds = [r \in {1} |-> FirstRound],
                  !.wAuction = <<[auction EXCEPT !.status = "active",
                                                 !.currentRound = 1]>>]]

StartAuctionTxn(t) ==
    /\ FirstIdle(t)
    /\ IsPending(auction)
    /\ task' = [task EXCEPT ![t] = StartingTask]
    /\ UNCHANGED <<now, auction, rounds, users, bids, lock, lockOwner,
                   ttlExceeded, jobs, deposited, accepted, settled, budget,
                   ledger, published>>

(* commitTransaction, or the catch block when the commit fails.  No       *)
(* close-round job is scheduled anywhere on this path.                    *)
StartAuctionCommit(t) ==
    /\ task[t].pc = "sa_commit"
    /\ IF WriteConflict(task[t].txn)
       THEN /\ task' = [task EXCEPT ![t] = IdleTask]
            /\ UNCHANGED <<auction, rounds>>
       ELSE /\ auction' = AuctionAfter(task[t].txn)
            /\ rounds' = RoundsAfter(task[t].txn)
            /\ task' = TasksAfterWrite(t, IdleTask, WriteSet(task[t].txn))
    /\ UNCHANGED <<now, users, bids, lock, lockOwner, ttlExceeded, jobs,
                   deposited, accepted, settled, budget,
                   ledger, published>>

(* startAuction on an auction that is not pending (the start-auction job  *)
(* or a poller that another caller has overtaken): the transaction is     *)
(* aborted and null is returned.                                          *)
StartAuctionNull(t) ==
    /\ FirstIdle(t)
    /\ ~IsPending(auction)
    /\ task' = [task EXCEPT ![t] = [IdleTask EXCEPT !.pc = "sa_null"]]
    /\ UNCHANGED <<now, auction, rounds, users, bids, lock, lockOwner,
                   ttlExceeded, jobs, deposited, accepted, settled, budget,
                   ledger, published>>

StartAuctionReturn(t) ==
    /\ task[t].pc = "sa_null"
    /\ task' = [task EXCEPT ![t] = IdleTask]
    /\ UNCHANGED <<now, auction, rounds, users, bids, lock, lockOwner,
                   ttlExceeded, jobs, deposited, accepted, settled, budget,
                   ledger, published>>

(* ------------------------------ Bull queue ---------------------------- *)
(* roundQueue.add(..., {delay, jobId: round-<id>}): an id that is already *)
(* in the queue (in any state) is not added again.                        *)
scheduleRoundProcessing(js, r, endAt) ==
    IF js[r].state # "none" THEN js
    ELSE [js EXCEPT ![r] = [state |-> "delayed", runAt |-> Max(now, endAt),
                            holder |-> None, stalled |-> 0]]

(* existingJob.remove() fails for a job that a worker is processing.      *)
CanReschedule(js, r) == js[r].state # "active"

rescheduleRoundProcessing(js, r, newEndAt) ==
    scheduleRoundProcessing([js EXCEPT ![r].state = "none"], r, newEndAt)

(* -------------------------- BidService.placeBid ----------------------- *)
(* withLock(`bid:${auctionId}:${userId}`, ...) up to the entry of fn.     *)
PlaceBidCall(t, u, a) ==
    /\ FirstIdle(t)
    /\ u \in budget.bidders
    /\ CanAcquire(BidKey(u))
    /\ lock' = LockAfterAcquire(BidKey(u))
    /\ lockOwner' = OwnerAfterAcquire(t, BidKey(u))
    /\ task' = [task EXCEPT ![t] = [IdleTask EXCEPT !.pc = "pb_txn", !.user = u,
                                       !.amount = a, !.key = BidKey(u),
                                       !.acquired = TRUE]]
    /\ UNCHANGED <<now, auction, rounds, users, bids, ttlExceeded, jobs,
                   deposited, accepted, settled, budget,
                   ledger, published>>

ActiveRounds == {r \in RoundIds : rounds[r].status = "active"}

(* Bid.findOne({auctionId, roundId, userId, status: 'active'})            *)
ExistingBids(r, u) == {i \in ActiveBidsOf(bids, r) : bids[i].userId = u}

(* Mutation of UniqueBidIndex: the index is not unique.                   *)
NoUniqueBidIndex(bs, r, u) == TRUE

(* bidSchema.index({auctionId, roundId, userId}, {unique: true}): the     *)
(* insert of a second document with the key fails.                        *)
UniqueBidIndex(bs, r, u) == ~\E i \in 1..Len(bs) : bs[i].roundId = r /\ bs[i].userId = u

(* BalanceService.freeze, which writes a ledger entry of type freeze.      *)
freeze(user, a) == [user EXCEPT !.balance = @ - a, !.frozenBalance = @ + a]

NewBid(r, u, a) == [roundId |-> r, userId |-> u, amount |-> a, status |-> "active",
                    createdAt |-> now, wonInRound |-> None, itemNumber |-> None]

(* Mutation of RaisedAmount: the raise replaces the amount.               *)
ReplacedAmount(old, a) == a

(* The raise: existingBid.amount + amount.                                *)
RaisedAmount(old, a) == old + a

(* The bid and the freeze the transaction writes for round r.             *)
BidWrites(r, u, a) ==
    IF ExistingBids(r, u) # {}
    THEN LET i == CHOOSE j \in ExistingBids(r, u) : TRUE
         IN [EmptyTxn EXCEPT
               !.wUsers = [v \in {u} |-> freeze(users[u], a)],
               !.entries = <<Entry(u, "freeze")>>,
               !.wBids = [j \in {i} |-> [bids[i] EXCEPT !.amount = RaisedAmount(@, a)]]]
    ELSE [EmptyTxn EXCEPT
               !.wUsers = [v \in {u} |-> freeze(users[u], a)],
               !.entries = <<Entry(u, "freeze")>>,
               !.insBids = <<NewBid(r, u, a)>>]

MyBidId(r, u) == IF ExistingBids(r, u) # {}
                 THEN CHOOSE j \in ExistingBids(r, u) : TRUE
                 ELSE Len(bids) + 1

(* Mutation of BelowMinimum: an amount equal to minBid is rejected too.  *)
BelowOrAtMinimum(a) == a <= auction.minBid

(* if (amount < auction.minBid)                                           *)
BelowMinimum(a) == a < auction.minBid

(* The error placeBid throws before it looks at the user, or "none".      *)
EntryError(a) ==
    IF auction.status # "active" THEN "Auction not active"
    ELSE IF BelowMinimum(a) THEN "Minimum bid"
    ELSE IF ActiveRounds = {} THEN "No active round"
    ELSE "none"

(* Mutation of InsufficientBalance: the balance is not checked.           *)
NoBalanceCheck(u, a) == FALSE

(* if (user.balance < amount), in placeBid (both paths) and in freeze.    *)
InsufficientBalance(u, a) == users[u].balance < a

(* Mutation of RoundEnded: a bid at the end of the round is late.         *)
EndedAtEndAt(r) == now >= rounds[r].endAt

(* if (new Date() > round.endAt)                                          *)
RoundEnded(r) == now > rounds[r].endAt

(* The error placeBid throws after it has found the active round r, or    *)
(* "none".                                                                *)
BidError(r, u, a) ==
    IF RoundEnded(r) THEN "Round has ended"
    ELSE IF InsufficientBalance(u, a) THEN "Insufficient balance"
    ELSE IF ExistingBids(r, u) = {} /\ ~UniqueBidIndex(bids, r, u)
         THEN "E11000 duplicate key"
    ELSE "none"

BidRejected(r, u, a) == BidError(r, u, a) # "none"

(* Mutation of InAntiSnipingWindow: the bound of the window is excluded. *)
StrictlyInsideWindow(endAt) == endAt - now < AntiSnipingWindow

(* checkAntiSniping: timeLeft <= window.                                  *)
InAntiSnipingWindow(endAt) == endAt - now <= AntiSnipingWindow

(* topBids.some(b => b._id = bid._id) for the sorted result ord.          *)
IsInTop(ord, id) == \E k \in 1..Min(AntiSnipingThreshold, Len(ord)) : ord[k] = id

ExtendedEndAt(endAt) == endAt + AntiSnipingExtension

PlaceBidTxn(t) ==
    LET u == task[t].user
        a == task[t].amount
        throw(e) == [task EXCEPT ![t].pc = "pb_release", ![t].error = e]
    IN
    /\ task[t].pc = "pb_txn"
    /\ IF EntryError(a) # "none"
       THEN task' = throw(EntryError(a)) /\ UNCHANGED jobs
       ELSE \E r \in ActiveRounds :
            IF BidRejected(r, u, a)
            THEN task' = throw(BidError(r, u, a)) /\ UNCHANGED jobs
            ELSE LET x == BidWrites(r, u, a)
                     view == BidsAfter(x)
                 IN \E ord \in RankedOrders(view, ActiveBidsOf(view, r)) :
                    IF InAntiSnipingWindow(rounds[r].endAt) /\ IsInTop(ord, MyBidId(r, u))
                    THEN IF CanReschedule(jobs, r)
                         THEN /\ jobs' = rescheduleRoundProcessing(jobs, r,
                                             ExtendedEndAt(rounds[r].endAt))
                              /\ task' = [task EXCEPT ![t].pc = "pb_commit",
                                    ![t].round = r,
                                    ![t].txn = [x EXCEPT !.wRounds = [q \in {r} |->
                                        [rounds[r] EXCEPT !.endAt = ExtendedEndAt(@)]]]]
                         ELSE task' = throw("Could not remove job") /\ UNCHANGED jobs
                    ELSE /\ task' = [task EXCEPT ![t].pc = "pb_commit",
                                        ![t].round = r, ![t].txn = x]
                         /\ UNCHANGED jobs
    /\ UNCHANGED <<now, auction, rounds, users, bids, lock, lockOwner,
                   ttlExceeded, deposited, accepted, settled, budget,
                   ledger, published>>

(* The reads and the emits that follow the commit of placeBid are a step  *)
(* of their own in the runs that follow them; elsewhere they happen with  *)
(* the commit.  They write nothing to the database.                       *)
PostCommitSteps == Input(budget, "postCommit", FALSE)

(* checkAntiSniping returned true: it wrote the round's new endAt.        *)
AntiSnipingTriggered(x) == DOMAIN x.wRounds # {}

(* emitNewBid, emitAntiSnipe, emitLeaderboardUpdate.                      *)
Emits == 3

(* The room after the first k of the three emits of placeBid; the second  *)
(* is made only if (antiSnipingTriggered).                                *)
BidPublishes(p, triggered, k) ==
    [p EXCEPT !.bidNew = IF k >= 1 THEN Counted(@ + 1) ELSE @,
              !.antiSnipe = IF k >= 2 /\ triggered THEN Counted(@ + 1) ELSE @,
              !.leaderboard = IF k >= Emits THEN Counted(@ + 1) ELSE @]

(* session.commitTransaction(), or the catch block on a write conflict.   *)
PlaceBidCommit(t) ==
    /\ task[t].pc = "pb_commit"
    /\ IF WriteConflict(task[t].txn)
       THEN /\ task' = [task EXCEPT ![t].pc = "pb_release", ![t].txn = EmptyTxn,
                                    ![t].error = "WriteConflict"]
            /\ UNCHANGED <<users, bids, rounds, ledger, accepted, published>>
       ELSE /\ users' = UsersAfter(task[t].txn)
            /\ bids' = BidsAfter(task[t].txn)
            /\ rounds' = RoundsAfter(task[t].txn)
            /\ ledger' = LedgerAfter(task[t].txn)
            /\ accepted' = [accepted EXCEPT ![task[t].round][task[t].user] =
                                               @ + task[t].amount]
            /\ published' = IF PostCommitSteps THEN published
                            ELSE BidPublishes(published,
                                     AntiSnipingTriggered(task[t].txn), Emits)
            /\ task' = TasksAfterWrite(t,
                          [task[t] EXCEPT
                             !.pc = IF PostCommitSteps THEN "pb_after"
                                    ELSE "pb_release",
                             !.antiSnipingTriggered =
                                 AntiSnipingTriggered(task[t].txn),
                             !.txn = EmptyTxn],
                          WriteSet(task[t].txn))
    /\ UNCHANGED <<now, auction, lock, lockOwner, ttlExceeded, jobs,
                   deposited, settled, budget>>

(* The reads after the commit have succeeded: emitNewBid, emitAntiSnipe   *)
(* when the bid extended the round, emitLeaderboardUpdate; fn returns.    *)
PlaceBidPublish(t) ==
    /\ task[t].pc = "pb_after"
    /\ published' = BidPublishes(published, task[t].antiSnipingTriggered, Emits)
    /\ task' = [task EXCEPT ![t].pc = "pb_release"]
    /\ UNCHANGED <<now, auction, rounds, users, bids, lock, lockOwner,
                   ttlExceeded, jobs, deposited, accepted, settled, budget,
                   ledger>>

(* A read after the commit throws (Bid.countDocuments or getUserBidRank   *)
(* before the first emit, Round.findById before the second,               *)
(* getRoundLeaderboard or User.find before the third): the catch block    *)
(* calls abortTransaction on the committed transaction and the error      *)
(* reaches the caller of placeBid.                                        *)
PlaceBidAfterError(t, k) ==
    /\ task[t].pc = "pb_after"
    /\ budget.faults > 0
    /\ k < Emits
    /\ k = 1 => task[t].antiSnipingTriggered
    /\ budget' = [budget EXCEPT !.faults = @ - 1]
    /\ published' = BidPublishes(published, task[t].antiSnipingTriggered, k)
    /\ task' = [task EXCEPT ![t].pc = "pb_release",
                             ![t].error = "read after commit failed"]
    /\ UNCHANGED <<now, auction, rounds, users, bids, lock, lockOwner,
                   ttlExceeded, jobs, deposited, accepted, settled,
                   ledger>>

(* session.commitTransaction() throws a transient error (the connection   *)
(* to the primary is lost, the transaction has expired): the catch block  *)
(* aborts and rethrows.  What checkAntiSniping did to the queue stays.    *)
PlaceBidCommitError(t) ==
    /\ task[t].pc = "pb_commit"
    /\ budget.faults > 0
    /\ budget' = [budget EXCEPT !.faults = @ - 1]
    /\ task' = [task EXCEPT ![t].pc = "pb_release", ![t].txn = EmptyTxn,
                             ![t].error = "TransientTransactionError"]
    /\ UNCHANGED <<now, auction, rounds, users, bids, lock, lockOwner,
                   ttlExceeded, jobs, deposited, accepted, settled,
                   ledger, published>>

(* ------------------- close-round job -> processRound ------------------ *)
(* A worker takes the delayed job once its delay has passed and calls     *)
(* processRound, which enters fn under withLock(`round:${roundId}`).  A   *)
(* delivery that finds the key set on every attempt throws and is retried *)
(* by Bull: the delivery that runs fn is one that finds the key free.     *)
JobFire(t, r) ==
    /\ FirstIdle(t)
    /\ jobs[r].state = "delayed"
    /\ now >= jobs[r].runAt
    /\ CanAcquire(RoundKey(r))
    /\ lock' = LockAfterAcquire(RoundKey(r))
    /\ lockOwner' = OwnerAfterAcquire(t, RoundKey(r))
    /\ jobs' = [jobs EXCEPT ![r].state = "active", ![r].holder = t]
    /\ task' = [task EXCEPT ![t] = [IdleTask EXCEPT !.pc = "pr_txn", !.round = r,
                                       !.key = RoundKey(r), !.acquired = TRUE]]
    /\ UNCHANGED <<now, auction, rounds, users, bids, ttlExceeded,
                   deposited, accepted, settled, budget,
                   ledger, published>>

(* Bull finds the job stalled (its worker did not renew the job lock):    *)
(* it puts the job back for another delivery, or fails it once it has     *)
(* stalled more than maxStalledCount times; the first worker keeps        *)
(* running.                                                               *)
JobStalled(r) ==
    /\ jobs[r].state = "active"
    /\ jobs' = IF jobs[r].stalled < MaxStalledCount
               THEN [jobs EXCEPT ![r].state = "delayed", ![r].holder = None,
                                 ![r].stalled = @ + 1]
               ELSE [jobs EXCEPT ![r].state = "failed", ![r].holder = None]
    /\ UNCHANGED <<now, auction, rounds, users, bids, lock, lockOwner,
                   ttlExceeded, task, deposited, accepted, settled, budget,
                   ledger, published>>

(* The handler returned: the job is completed by the worker that holds it.*)
JobsAfterReturn(t, r) ==
    IF jobs[r].state = "active" /\ jobs[r].holder = t
    THEN [jobs EXCEPT ![r].state = "completed", ![r].holder = None]
    ELSE jobs

(* Mutation of processWin: the win is also taken from the available      *)
(* balance.                                                               *)
WinDebitsBalance(user, a) ==
    [user EXCEPT !.frozenBalance = @ - a, !.balance = @ - a]

(* BalanceService.processWin and BalanceService.refund, each of which     *)
(* writes a ledger entry of its type.                                     *)
processWin(user, a) == [user EXCEPT !.frozenBalance = @ - a]
RefundKeepsFrozen(user, a) == [user EXCEPT !.balance = @ + a]
refund(user, a) == [user EXCEPT !.frozenBalance = @ - a, !.balance = @ + a]

(* Winners are the first W bids of the sorted result.                     *)
WinnersCount(r, ord) == Min(rounds[r].winnersCount, Len(ord))
IsWinner(k, W) == k <= W

RECURSIVE SettleUsers(_, _, _, _)
SettleUsers(us, ord, k, W) ==
    IF k > Len(ord) THEN us
    ELSE LET b == bids[ord[k]]
         IN SettleUsers([us EXCEPT ![b.userId] =
                            IF IsWinner(k, W) THEN processWin(@, b.amount)
                                              ELSE refund(@, b.amount)],
                        ord, k + 1, W)

(* Mutation of itemNumber: every winner of the round gets the base.       *)
SameItemNumber(base, i) == base

(* baseItemNumber = auction.distributedItems + 1; itemNumber:             *)
(* baseItemNumber + i for the bid at index i (from 0) of the sorted       *)
(* result.                                                                *)
baseItemNumber == auction.distributedItems + 1
itemNumber(base, i) == base + i

SettleBid(r, ord, k, W) ==
    IF IsWinner(k, W)
    THEN [bids[ord[k]] EXCEPT !.status = "won", !.wonInRound = r,
                              !.itemNumber = itemNumber(baseItemNumber, k - 1)]
    ELSE [bids[ord[k]] EXCEPT !.status = "refunded"]

RECURSIVE TotalSpent(_, _)
TotalSpent(ord, W) ==
    IF W = 0 THEN 0 ELSE bids[ord[W]].amount + TotalSpent(ord, W - 1)

(* 'Insufficient frozen balance' in processWin or refund.                 *)
FrozenShort(ord) ==
    \E k \in 1..Len(ord) : users[bids[ord[k]].userId].frozenBalance < bids[ord[k]].amount

(* Mutation of HasNextRound: a round without a winner ends the auction.  *)
NextRoundOnlyAfterWin(r, newDistributed) ==
    /\ newDistributed > auction.distributedItems
    /\ auction.totalItems - newDistributed > 0 /\ r < auction.totalRounds

(* remainingItems > 0 && round.roundNumber < auction.totalRounds          *)
HasNextRound(r, newDistributed) ==
    auction.totalItems - newDistributed > 0 /\ r < auction.totalRounds

(* Mutation of NextRound: winnersCount is not capped by the remaining     *)
(* items.                                                                 *)
NextRoundUncapped(newDistributed) ==
    [status |-> "active", endAt |-> now + OtherRoundDuration,
     originalEndAt |-> now + OtherRoundDuration,
     winnersCount |-> auction.itemsPerRound]

(* Round.create([{roundNumber + 1, startAt: now, endAt: now +             *)
(* otherRoundDuration, status: 'active', winnersCount:                    *)
(* min(itemsPerRound, remainingItems)}]).                                 *)
NextRound(newDistributed) ==
    [status |-> "active", endAt |-> now + OtherRoundDuration,
     originalEndAt |-> now + OtherRoundDuration,
     winnersCount |-> Min(auction.itemsPerRound,
                          auction.totalItems - newDistributed)]

(* The writes of the settlement of round r for the sorted result ord.     *)
SettlementWrites(r, ord) ==
    LET W == WinnersCount(r, ord)
        newDistributed == auction.distributedItems + W
        newAvgNum == IF newDistributed > 0
                     THEN auction.avgPriceNum + TotalSpent(ord, W) ELSE 0
        a1 == [auction EXCEPT !.distributedItems = newDistributed,
                              !.avgPriceNum = newAvgNum]
        su == SettleUsers(users, ord, 1, W)
        touched == {bids[ord[k]].userId : k \in 1..Len(ord)}
    IN [EmptyTxn EXCEPT
          !.wUsers = [u \in touched |-> su[u]],
          !.entries = [k \in 1..Len(ord) |->
                         Entry(bids[ord[k]].userId,
                               IF IsWinner(k, W) THEN "win" ELSE "refund")],
          !.wBids = [i \in Range(ord) |->
                       SettleBid(r, ord, CHOOSE k \in 1..Len(ord) : ord[k] = i, W)],
          !.wRounds = IF HasNextRound(r, newDistributed)
                      THEN [q \in {r, r + 1} |->
                              IF q = r THEN [rounds[r] EXCEPT !.status = "completed"]
                              ELSE NextRound(newDistributed)]
                      ELSE [q \in {r} |-> [rounds[r] EXCEPT !.status = "completed"]],
          !.wAuction = IF HasNextRound(r, newDistributed)
                       THEN <<[a1 EXCEPT !.currentRound = r + 1]>>
                       ELSE <<[a1 EXCEPT !.status = "completed"]>>]

(* findOneAndUpdate({_id, status: 'active'}, {status: 'processing'})      *)
CasActive(r) == rounds[r].status = "active"

(* From startTransaction to just before commitTransaction.                *)
ProcessRoundTxn(t) ==
    LET r == task[t].round
    IN
    /\ task[t].pc = "pr_txn"
    /\ IF ~CasActive(r)
       THEN task' = [task EXCEPT ![t].pc = "pr_release",
                                 ![t].error = "not active, skipping"]
       ELSE \E ord \in RankedOrders(bids, ActiveBidsOf(bids, r)) :
            LET newDistributed == auction.distributedItems + WinnersCount(r, ord)
            IN IF \/ FrozenShort(ord)
                  \/ (HasNextRound(r, newDistributed) /\ rounds[r + 1].status # "none")
               THEN task' = [task EXCEPT ![t].pc = "pr_catch"]
               ELSE task' = [task EXCEPT ![t].pc = "pr_commit",
                               ![t].next = IF HasNextRound(r, newDistributed)
                                           THEN r + 1 ELSE None,
                               ![t].fetched = Range(ord),
                               ![t].txn = SettlementWrites(r, ord)]
    /\ UNCHANGED <<now, auction, rounds, users, bids, lock, lockOwner,
                   ttlExceeded, jobs, deposited, accepted, settled, budget,
                   ledger, published>>

ProcessRoundCommit(t) ==
    /\ task[t].pc = "pr_commit"
    /\ IF WriteConflict(task[t].txn)
       THEN /\ task' = [task EXCEPT ![t].pc = "pr_catch", ![t].txn = EmptyTxn]
            /\ UNCHANGED <<auction, rounds, users, bids, ledger, settled>>
       ELSE /\ users' = UsersAfter(task[t].txn)
            /\ bids' = BidsAfter(task[t].txn)
            /\ rounds' = RoundsAfter(task[t].txn)
            /\ auction' = AuctionAfter(task[t].txn)
            /\ ledger' = LedgerAfter(task[t].txn)
            /\ settled' = [settled EXCEPT ![task[t].round] = Min(@ + 1, MaxSettled)]
            /\ task' = TasksAfterWrite(t,
                          [task[t] EXCEPT !.pc = "pr_after", !.txn = EmptyTxn],
                          WriteSet(task[t].txn))
    /\ UNCHANGED <<now, lock, lockOwner, ttlExceeded, jobs, deposited,
                   accepted, budget, published>>

(* emitRoundEnd, then emitRoundStart for the round the transaction has    *)
(* created or emitAuctionComplete, which sends auction:complete to the    *)
(* auction's room and once more to every client.                          *)
RoundPublishes(p, r, next) ==
    LET ended == [p EXCEPT !.roundEnd[r] = Counted(@ + 1)]
    IN IF next # None
       THEN [ended EXCEPT !.roundStart[next] = Counted(@ + 1)]
       ELSE [ended EXCEPT !.auctionComplete = Counted(@ + 2)]

(* After the commit: the events, and scheduleRoundProcessing for the next *)
(* round.                                                                 *)
ProcessRoundAfterCommit(t) ==
    /\ task[t].pc = "pr_after"
    /\ jobs' = IF task[t].next # None
               THEN scheduleRoundProcessing(jobs, task[t].next, rounds[task[t].next].endAt)
               ELSE jobs
    /\ published' = RoundPublishes(published, task[t].round, task[t].next)
    /\ task' = [task EXCEPT ![t].pc = "pr_release"]
    /\ UNCHANGED <<now, auction, rounds, users, bids, lock, lockOwner,
                   ttlExceeded, deposited, accepted, settled, budget,
                   ledger>>

(* catch: abortTransaction, then Round.updateOne({_id}, {status:          *)
(* 'active'}) outside the transaction; the error is not rethrown.         *)
ResetStatus(st) == "active"

ProcessRoundCatch(t) ==
    /\ task[t].pc = "pr_catch"
    /\ rounds' = [rounds EXCEPT ![task[t].round].status = ResetStatus(@)]
    /\ task' = TasksAfterWrite(t, [task[t] EXCEPT !.pc = "pr_release", !.txn = EmptyTxn],
                               {RoundDoc(task[t].round)})
    /\ UNCHANGED <<now, auction, users, bids, lock, lockOwner, ttlExceeded,
                   jobs, deposited, accepted, settled, budget,
                   ledger, published>>

(* ------------------------- the second auction ------------------------ *)
(* placeBid on the second auction: the lock key holds the auction id, so  *)
(* it differs from the key of the user's bid on the first auction.  The   *)
(* second auction is active and its round is open and far from its end.   *)
OtherPlaceBidCall(t, u, a) ==
    /\ FirstIdle(t)
    /\ u \in OtherBidders
    /\ CanAcquire(OtherBidKey(u))
    /\ lock' = LockAfterAcquire(OtherBidKey(u))
    /\ lockOwner' = OwnerAfterAcquire(t, OtherBidKey(u))
    /\ task' = [task EXCEPT ![t] = [IdleTask EXCEPT !.pc = "ob_txn", !.user = u,
                                       !.amount = a, !.key = OtherBidKey(u),
                                       !.acquired = TRUE]]
    /\ UNCHANGED <<now, auction, rounds, users, bids, ledger, ttlExceeded, jobs,
                   deposited, accepted, settled, budget, published>>

OtherPlaceBidTxn(t) ==
    LET u == task[t].user
        a == task[t].amount
    IN
    /\ task[t].pc = "ob_txn"
    /\ task' = IF InsufficientBalance(u, a)
               THEN [task EXCEPT ![t].pc = "pb_release",
                                 ![t].error = "Insufficient balance"]
               ELSE [task EXCEPT ![t].pc = "ob_commit", ![t].round = OtherRound,
                                 ![t].txn = BidWrites(OtherRound, u, a)]
    /\ UNCHANGED <<now, auction, rounds, users, bids, ledger, lock, lockOwner,
                   ttlExceeded, jobs, deposited, accepted, settled, budget,
                   published>>

OtherPlaceBidCommit(t) ==
    /\ task[t].pc = "ob_commit"
    /\ IF WriteConflict(task[t].txn)
       THEN /\ task' = [task EXCEPT ![t].pc = "pb_release", ![t].txn = EmptyTxn,
                                    ![t].error = "WriteConflict"]
            /\ UNCHANGED <<users, bids, ledger>>
       ELSE /\ users' = UsersAfter(task[t].txn)
            /\ bids' = BidsAfter(task[t].txn)
            /\ ledger' = LedgerAfter(task[t].txn)
            /\ task' = TasksAfterWrite(t,
                          [task[t] EXCEPT !.pc = "pb_release", !.txn = EmptyTxn],
                          WriteSet(task[t].txn))
    /\ UNCHANGED <<now, auction, rounds, lock, lockOwner, ttlExceeded, jobs,
                   deposited, accepted, settled, budget, published>>

(* processRound on the round of the second auction, as far as the wallets *)
(* and the bids go: the first ItemsPerRound bids of the sorted result     *)
(* win, the others are refunded; the bidding goes on in its next round.   *)
OtherSettleWrites(ord) ==
    LET W == Min(ItemsPerRound, Len(ord))
        su == SettleUsers(users, ord, 1, W)
        touched == {bids[ord[k]].userId : k \in 1..Len(ord)}
    IN [EmptyTxn EXCEPT
          !.wUsers = [u \in touched |-> su[u]],
          !.entries = [k \in 1..Len(ord) |->
                         Entry(bids[ord[k]].userId,
                               IF IsWinner(k, W) THEN "win" ELSE "refund")],
          !.wBids = [i \in Range(ord) |->
                       LET k == CHOOSE j \in 1..Len(ord) : ord[j] = i
                       IN [bids[i] EXCEPT !.status =
                              IF IsWinner(k, W) THEN "won" ELSE "refunded"]]]

OtherSettleTxn(t) ==
    /\ FirstIdle(t)
    /\ budget.settlements > 0
    /\ budget' = [budget EXCEPT !.settlements = @ - 1]
    /\ ActiveBidsOf(bids, OtherRound) # {}
    /\ \E ord \in RankedOrders(bids, ActiveBidsOf(bids, OtherRound)) :
          /\ ~FrozenShort(ord)
          /\ task' = [task EXCEPT ![t] = [IdleTask EXCEPT !.pc = "os_commit",
                                             !.round = OtherRound,
                                             !.txn = OtherSettleWrites(ord)]]
    /\ UNCHANGED <<now, auction, rounds, users, bids, ledger, lock, lockOwner,
                   ttlExceeded, jobs, deposited, accepted, settled,
                   published>>

OtherSettleCommit(t) ==
    /\ task[t].pc = "os_commit"
    /\ IF WriteConflict(task[t].txn)
       THEN /\ task' = [task EXCEPT ![t] = IdleTask]
            /\ UNCHANGED <<users, bids, ledger>>
       ELSE /\ users' = UsersAfter(task[t].txn)
            /\ bids' = BidsAfter(task[t].txn)
            /\ ledger' = LedgerAfter(task[t].txn)
            /\ task' = TasksAfterWrite(t, IdleTask, WriteSet(task[t].txn))
    /\ UNCHANGED <<now, auction, rounds, lock, lockOwner, ttlExceeded, jobs,
                   deposited, accepted, settled, budget, published>>

(* ------------------------ withLock: leaving fn ------------------------ *)
(* finally { await lock.release() }, then the caller sees the result.     *)
WithLockRelease(t) ==
    /\ task[t].pc \in ReleasePcs
    /\ lock' = LockAfterRelease(t)
    /\ lockOwner' = OwnerAfterRelease(t)
    /\ jobs' = IF task[t].pc = "pr_release" THEN JobsAfterReturn(t, task[t].round)
               ELSE jobs
    /\ task' = [task EXCEPT ![t] = IdleTask]
    /\ UNCHANGED <<now, auction, rounds, users, bids, ttlExceeded,
                   deposited, accepted, settled, budget,
                   ledger, published>>

(* The auction engine while every withLock body ends within the lock TTL. *)
Next ==
    \/ Tick
    \/ \E t \in Tasks : StartAuctionTxn(t)
    \/ \E t \in Tasks : StartAuctionCommit(t)
    \/ \E t \in Tasks, u \in Users, a \in Amounts : PlaceBidCall(t, u, a)
    \/ \E t \in Tasks : PlaceBidTxn(t)
    \/ \E t \in Tasks : PlaceBidCommit(t)
    \/ \E t \in Tasks, r \in RoundIds : JobFire(t, r)
    \/ \E t \in Tasks : ProcessRoundTxn(t)
    \/ \E t \in Tasks : ProcessRoundCommit(t)
    \/ \E t \in Tasks : ProcessRoundAfterCommit(t)
    \/ \E t \in Tasks : ProcessRoundCatch(t)
    \/ \E t \in Tasks : WithLockRelease(t)

Spec == Init /\ [][Next]_vars

(* The same engine when a lock may reach its TTL while its holder is      *)
(* still inside fn, and Bull may deliver a stalled close-round job again; *)
(* user 1 is the one bidder.                                              *)
InitTtl == InitWith(<<RichBalance, 0, 0, 0>>,
                    [deposits |-> 0, expiries |-> MaxExpiries, horizon |-> MaxTime,
                     bidders |-> {1}, window |-> 0, faults |-> 0, settlements |-> 0])

NextTtl ==
    \/ Tick
    \/ \E t \in Tasks : StartAuctionTxn(t)
    \/ \E t \in Tasks : StartAuctionCommit(t)
    \/ \E t \in Tasks, u \in Users, a \in Amounts : PlaceBidCall(t, u, a)
    \/ \E t \in Tasks : PlaceBidTxn(t)
    \/ \E t \in Tasks : PlaceBidCommit(t)
    \/ \E t \in Tasks, r \in RoundIds : JobFire(t, r)
    \/ \E r \in RoundIds : JobStalled(r)
    \/ \E t \in Tasks : ProcessRoundTxn(t)
    \/ \E t \in Tasks : ProcessRoundCommit(t)
    \/ \E t \in Tasks : ProcessRoundAfterCommit(t)
    \/ \E t \in Tasks : ProcessRoundCatch(t)
    \/ \E t \in Tasks : WithLockRelease(t)
    \/ \E k \in LockKeys : LockExpire(k)

SpecTtl == InitTtl /\ [][NextTtl]_vars

(* The same with both users bidding, followed until the last round of the *)
(* auction can end.                                                       *)
InitTtlLong == InitWith(<<PoorBalance, PoorBalance, 0, 0>>,
                        [deposits |-> 0, expiries |-> MaxExpiries, horizon |-> LongTime,
                         bidders |-> {1, 2}, window |-> 0, faults |-> 0, settlements |-> 0])

SpecTtlLong == InitTtlLong /\ [][NextTtl]_vars

(* The same for 2 items in up to 3 rounds, with user 1 able to bid in two *)
(* rounds, when the worker that                                           *)
(* settles round 1 may be slow: the job of round 1 may stall and the lock *)
(* of round 1 may reach its TTL.                                          *)
InitTtlRich == InitWith(<<RichBalance, PoorBalance, 0, 0>>,
                        [deposits |-> 0, expiries |-> MaxExpiries,
                         horizon |-> LongTime, bidders |-> {1, 2},
                         window |-> 0, faults |-> 0, settlements |-> 0,
                         totalRounds |-> 3])

NextTtlRich ==
    \/ Tick
    \/ \E t \in Tasks : StartAuctionTxn(t)
    \/ \E t \in Tasks : StartAuctionCommit(t)
    \/ \E t \in Tasks, u \in Users, a \in Amounts : PlaceBidCall(t, u, a)
    \/ \E t \in Tasks : PlaceBidTxn(t)
    \/ \E t \in Tasks : PlaceBidCommit(t)
    \/ \E t \in Tasks, r \in RoundIds : JobFire(t, r)
    \/ JobStalled(1)
    \/ \E t \in Tasks : ProcessRoundTxn(t)
    \/ \E t \in Tasks : ProcessRoundCommit(t)
    \/ \E t \in Tasks : ProcessRoundAfterCommit(t)
    \/ \E t \in Tasks : ProcessRoundCatch(t)
    \/ \E t \in Tasks : WithLockRelease(t)
    \/ LockExpire(RoundKey(1))

SpecTtlRich == InitTtlRich /\ [][NextTtlRich]_vars

(* The same engine with deposits (POST /users/me/deposit) arriving while  *)
(* bids are placed and rounds are settled.                                *)
InitDeposit == InitWith(<<PoorBalance, 0, 0, 0>>,
                        [deposits |-> MaxDeposits, expiries |-> 0, horizon |-> MaxTime,
                         bidders |-> {1, 2}, window |-> 0, faults |-> 0, settlements |-> 0])

NextDeposit ==
    \/ Tick
    \/ \E t \in Tasks, u \in Users : DepositRead(t, u, DepositAmount)
    \/ \E t \in Tasks : DepositSave(t)
    \/ \E t \in Tasks : StartAuctionTxn(t)
    \/ \E t \in Tasks : StartAuctionCommit(t)
    \/ \E t \in Tasks, u \in Users, a \in Amounts : PlaceBidCall(t, u, a)
    \/ \E t \in Tasks : PlaceBidTxn(t)
    \/ \E t \in Tasks : PlaceBidCommit(t)
    \/ \E t \in Tasks, r \in RoundIds : JobFire(t, r)
    \/ \E t \in Tasks : ProcessRoundTxn(t)
    \/ \E t \in Tasks : ProcessRoundCommit(t)
    \/ \E t \in Tasks : ProcessRoundAfterCommit(t)
    \/ \E t \in Tasks : ProcessRoundCatch(t)
    \/ \E t \in Tasks : WithLockRelease(t)

SpecDeposit == InitDeposit /\ [][NextDeposit]_vars

(* The engine when a commit of placeBid may fail with a transient error.  *)
InitFault == InitWith(<<RichBalance, PoorBalance, 0, 0>>,
                      [deposits |-> 0, expiries |-> 0, horizon |-> MaxTime,
                       bidders |-> {1, 2}, window |-> 0, faults |-> MaxFaults,
                       settlements |-> 0])

NextFault ==
    \/ Tick
    \/ \E t \in Tasks : StartAuctionTxn(t)
    \/ \E t \in Tasks : StartAuctionCommit(t)
    \/ \E t \in Tasks, u \in Users, a \in Amounts : PlaceBidCall(t, u, a)
    \/ \E t \in Tasks : PlaceBidTxn(t)
    \/ \E t \in Tasks : PlaceBidCommit(t)
    \/ \E t \in Tasks : PlaceBidCommitError(t)
    \/ \E t \in Tasks, r \in RoundIds : JobFire(t, r)
    \/ \E t \in Tasks : ProcessRoundTxn(t)
    \/ \E t \in Tasks : ProcessRoundCommit(t)
    \/ \E t \in Tasks : ProcessRoundAfterCommit(t)
    \/ \E t \in Tasks : ProcessRoundCatch(t)
    \/ \E t \in Tasks : WithLockRelease(t)

SpecFault == InitFault /\ [][NextFault]_vars

(* The engine when startAuction is also called on the started auction;    *)
(* user 1 is the one bidder.                                              *)
InitStart == InitWith(<<RichBalance, 0, 0, 0>>,
                      [deposits |-> 0, expiries |-> 0, horizon |-> MaxTime,
                       bidders |-> {1}, window |-> 0, faults |-> 0,
                       settlements |-> 0])

NextStart ==
    \/ Tick
    \/ \E t \in Tasks : StartAuctionTxn(t)
    \/ \E t \in Tasks : StartAuctionCommit(t)
    \/ \E t \in Tasks : StartAuctionNull(t)
    \/ \E t \in Tasks : StartAuctionReturn(t)
    \/ \E t \in Tasks, u \in Users, a \in Amounts : PlaceBidCall(t, u, a)
    \/ \E t \in Tasks : PlaceBidTxn(t)
    \/ \E t \in Tasks : PlaceBidCommit(t)
    \/ \E t \in Tasks, r \in RoundIds : JobFire(t, r)
    \/ \E t \in Tasks : ProcessRoundTxn(t)
    \/ \E t \in Tasks : ProcessRoundCommit(t)
    \/ \E t \in Tasks : ProcessRoundAfterCommit(t)
    \/ \E t \in Tasks : ProcessRoundCatch(t)
    \/ \E t \in Tasks : WithLockRelease(t)

SpecStart == InitStart /\ [][NextStart]_vars

(* The time at which the second round of an auction ends when its first   *)
(* round was extended once and its second round not at all.               *)
SecondRoundEnd == FirstRoundDuration + AntiSnipingExtension + OtherRoundDuration

(* An auction of 5 items in 3 rounds of 2 items, with users 1 and 2       *)
(* bidding, followed until its second round can end and its third round   *)
(* is open.                                                               *)
InitMulti == InitWith(<<RichBalance, RichBalance, 0, 0>>,
                      [deposits |-> 0, expiries |-> 0, horizon |-> SecondRoundEnd,
                       bidders |-> {1, 2}, window |-> 0, faults |-> 0,
                       settlements |-> 0, totalItems |-> 5, totalRounds |-> 3,
                       itemsPerRound |-> 2])

(* Every call of placeBid submits the minimum bid; a larger bid is made   *)
(* by raising.                                                            *)
NextMulti ==
    \/ Tick
    \/ \E t \in Tasks : StartAuctionTxn(t)
    \/ \E t \in Tasks : StartAuctionCommit(t)
    \/ \E t \in Tasks, u \in Users : PlaceBidCall(t, u, MinBid)
    \/ \E t \in Tasks : PlaceBidTxn(t)
    \/ \E t \in Tasks : PlaceBidCommit(t)
    \/ \E t \in Tasks, r \in RoundIds : JobFire(t, r)
    \/ \E t \in Tasks : ProcessRoundTxn(t)
    \/ \E t \in Tasks : ProcessRoundCommit(t)
    \/ \E t \in Tasks : ProcessRoundAfterCommit(t)
    \/ \E t \in Tasks : ProcessRoundCatch(t)
    \/ \E t \in Tasks : WithLockRelease(t)

SpecMulti == InitMulti /\ [][NextMulti]_vars

(* ------------------ AuctionService.create: defaults ------------------- *)
(* input.winnersPerRound || Math.ceil(input.totalItems /                  *)
(* input.totalRounds), for an input without winnersPerRound.              *)
DefaultItemsPerRound(items, rnds) == (items + rnds - 1) \div rnds

(* the largest totalItems of the auctions created with the default *)
MaxItems == 3

(* Auctions created without winnersPerRound, of 2 to MaxItems items in up *)
(* to MaxRounds rounds, for which two bidders can fill a round, followed  *)
(* until the second round can end.                                        *)
InitDefault ==
    \E items \in 2..MaxItems, rnds \in 1..MaxRounds :
        /\ DefaultItemsPerRound(items, rnds) <= Cardinality(OtherBidders)
        /\ InitWith(<<RichBalance, RichBalance, 0, 0>>,
                    [deposits |-> 0, expiries |-> 0, horizon |-> SecondRoundEnd,
                     bidders |-> {1, 2}, window |-> 0, faults |-> 0,
                     settlements |-> 0, totalItems |-> items, totalRounds |-> rnds,
                     itemsPerRound |-> DefaultItemsPerRound(items, rnds)])

SpecDefault == InitDefault /\ [][NextMulti]_vars

(* The engine when the reads and emits after the commit of placeBid are   *)
(* followed step by step and one of the reads, or the commit, may fail.   *)
InitPublish == InitWith(<<RichBalance, 0, 0, 0>>,
                        [deposits |-> 0, expiries |-> 0, horizon |-> MaxTime,
                         bidders |-> {1}, window |-> 0, faults |-> MaxFaults,
                         settlements |-> 0, postCommit |-> TRUE])

NextPublish ==
    \/ NextFault
    \/ \E t \in Tasks : PlaceBidPublish(t)
    \/ \E t \in Tasks, k \in 0..Emits : PlaceBidAfterError(t, k)

SpecPublish == InitPublish /\ [][NextPublish]_vars

(* ------------------------ BidService.getUserBidRank ------------------- *)
(* Bid.countDocuments({roundId, status: 'active', $or: [{amount > mine},  *)
(* {amount = mine, createdAt < mine}]}) + 1 for the active bid i.         *)
higherBids(i) ==
    {j \in ActiveBidsOf(bids, bids[i].roundId) : Before(bids[j], bids[i])}

(* Mutation of getUserBidRank: the count of the higher bids, without + 1. *)
RankFromZero(r, u) ==
    IF ExistingBids(r, u) = {} THEN None
    ELSE LET userBid == CHOOSE i \in ExistingBids(r, u) : TRUE
         IN Cardinality(higherBids(userBid))

(* The rank of user u in round r, or None when getUserBid finds no active *)
(* bid of the user.                                                       *)
getUserBidRank(r, u) ==
    IF ExistingBids(r, u) = {} THEN None
    ELSE LET userBid == CHOOSE i \in ExistingBids(r, u) : TRUE
         IN Cardinality(higherBids(userBid)) + 1

(* ------------------------------ start() ------------------------------ *)
(* A worker process starts: start() calls schedulePendingAuctions, which  *)
(* puts a start-auction job in auctionStartQueue for each pending auction *)
(* whose startAt is in the future (none: the auction's startAt is the     *)
(* origin of the clock) and calls startOverdueAuctions, which calls       *)
(* startAuction for each pending auction whose startAt has passed.        *)
(* Nothing on this path reads the rounds or adds to roundQueue.           *)
WorkerStart(t) ==
    /\ FirstIdle(t)
    /\ budget.starts > 0
    /\ budget' = [budget EXCEPT !.starts = @ - 1]
    /\ task' = IF IsPending(auction) THEN [task EXCEPT ![t] = StartingTask]
               ELSE task
    /\ UNCHANGED <<now, auction, rounds, users, bids, lock, lockOwner,
                   ttlExceeded, jobs, deposited, accepted, settled,
                   ledger, published>>

(* Worker processes that start while the auction is running.              *)
MaxStarts == 1

InitRestart == InitWith(<<RichBalance, 0, 0, 0>>,
                        [deposits |-> 0, expiries |-> 0, horizon |-> MaxTime,
                         bidders |-> {1}, window |-> 0, faults |-> 0,
                         settlements |-> 0, starts |-> MaxStarts])

NextRestart ==
    \/ Next
    \/ \E t \in Tasks : WorkerStart(t)

SpecRestart == InitRestart /\ [][NextRestart]_vars

(* An auction whose minBid is above the least amount a request can carry  *)
(* (PlaceBidSchema: amount >= 1): user 1 submits amounts of minBid - 1    *)
(* and of minBid and holds enough for a bid and a raise.                  *)
HigherMinBid == MinBid + 1

InitMin == InitWith(<<2 * HigherMinBid, 0, 0, 0>>,
                    [deposits |-> 0, expiries |-> 0, horizon |-> LongTime,
                     bidders |-> {1}, window |-> 0, faults |-> 0,
                     settlements |-> 0, minBid |-> HigherMinBid])

NextMin ==
    \/ Tick
    \/ \E t \in Tasks : StartAuctionTxn(t)
    \/ \E t \in Tasks : StartAuctionCommit(t)
    \/ \E t \in Tasks, u \in Users, a \in {HigherMinBid - 1, HigherMinBid} :
          PlaceBidCall(t, u, a)
    \/ \E t \in Tasks : PlaceBidTxn(t)
    \/ \E t \in Tasks : PlaceBidCommit(t)
    \/ \E t \in Tasks, r \in RoundIds : JobFire(t, r)
    \/ \E t \in Tasks : ProcessRoundTxn(t)
    \/ \E t \in Tasks : ProcessRoundCommit(t)
    \/ \E t \in Tasks : ProcessRoundAfterCommit(t)
    \/ \E t \in Tasks : ProcessRoundCatch(t)
    \/ \E t \in Tasks : WithLockRelease(t)

SpecMin == InitMin /\ [][NextMin]_vars

(* ------------------- withLock: the acquisition loop ------------------- *)
(* for (let i = 0; i < retries; i++): the loop goes on to attempt i.      *)
RetryingOnceMore(i) == i <= MaxAttempts
Retrying(i) == i < MaxAttempts

(* placeBid enters withLock(`bid:${auctionId}:${userId}`, fn): the Lock   *)
(* is constructed and no attempt has been made.                           *)
WithLockCall(t, u, a) ==
    /\ FirstIdle(t)
    /\ u \in budget.bidders
    /\ task' = [task EXCEPT ![t] = [IdleTask EXCEPT !.pc = "wl_acquire", !.user = u,
                                       !.amount = a, !.key = BidKey(u)]]
    /\ UNCHANGED <<now, auction, rounds, users, bids, lock, lockOwner,
                   ttlExceeded, jobs, deposited, accepted, settled, budget,
                   ledger, published>>

(* One pass of the loop: lock.acquire(); on OK fn is entered, otherwise   *)
(* the caller sleeps retryDelayMs and loops, or leaves the loop for the   *)
(* throw after the last attempt.                                          *)
WithLockAcquire(t) ==
    LET k == task[t].key
        i == task[t].attempts + 1
    IN
    /\ task[t].pc = "wl_acquire"
    /\ IF CanAcquire(k)
       THEN /\ lock' = LockAfterAcquire(k)
            /\ lockOwner' = OwnerAfterAcquire(t, k)
            /\ task' = [task EXCEPT ![t].pc = "pb_txn", ![t].acquired = TRUE,
                                    ![t].attempts = i]
       ELSE /\ task' = [task EXCEPT ![t].attempts = i,
                            ![t].pc = IF Retrying(i) THEN "wl_acquire" ELSE "wl_throw",
                            ![t].error = IF Retrying(i) THEN "none"
                                         ELSE "Failed to acquire lock"]
            /\ UNCHANGED <<lock, lockOwner>>
    /\ UNCHANGED <<now, auction, rounds, users, bids, ttlExceeded, jobs,
                   deposited, accepted, settled, budget, ledger, published>>

(* throw new Error(`Failed to acquire lock after ${retries} attempts`):   *)
(* the caller of placeBid has the error.                                  *)
WithLockThrow(t) ==
    /\ task[t].pc = "wl_throw"
    /\ task' = [task EXCEPT ![t] = IdleTask]
    /\ UNCHANGED <<now, auction, rounds, users, bids, lock, lockOwner,
                   ttlExceeded, jobs, deposited, accepted, settled, budget,
                   ledger, published>>

(* The engine with the acquisition loop of placeBid followed attempt by   *)
(* attempt; the requests are all of user 1, so they contend for one key.  *)
InitLock == InitWith(<<RichBalance, 0, 0, 0>>,
                     [deposits |-> 0, expiries |-> 0, horizon |-> MaxTime,
                      bidders |-> {1}, window |-> 0, faults |-> 0,
                      settlements |-> 0])

NextLock ==
    \/ Tick
    \/ \E t \in Tasks : StartAuctionTxn(t)
    \/ \E t \in Tasks : StartAuctionCommit(t)
    \/ \E t \in Tasks, u \in Users, a \in Amounts : WithLockCall(t, u, a)
    \/ \E t \in Tasks : WithLockAcquire(t)
    \/ \E t \in Tasks : WithLockThrow(t)
    \/ \E t \in Tasks : PlaceBidTxn(t)
    \/ \E t \in Tasks : PlaceBidCommit(t)
    \/ \E t \in Tasks, r \in RoundIds : JobFire(t, r)
    \/ \E t \in Tasks : ProcessRoundTxn(t)
    \/ \E t \in Tasks : ProcessRoundCommit(t)
    \/ \E t \in Tasks : ProcessRoundAfterCommit(t)
    \/ \E t \in Tasks : ProcessRoundCatch(t)
    \/ \E t \in Tasks : WithLockRelease(t)

SpecLock == InitLock /\ [][NextLock]_vars

(* The wallets while user 1 bids on round 1 of the auction and users 1    *)
(* and 2 bid on a second auction, whose round is settled at some time;    *)
(* round 1 stays open throughout.                                         *)
InitOther == InitWith(<<PoorBalance, PoorBalance, 0, 0>>,
                      [deposits |-> 0, expiries |-> 0, horizon |-> 0,
                       bidders |-> {1}, window |-> 0, faults |-> 0,
                       settlements |-> MaxOtherSettlements])

NextOther ==
    \/ \E t \in Tasks : StartAuctionTxn(t)
    \/ \E t \in Tasks : StartAuctionCommit(t)
    \/ \E t \in Tasks, u \in Users, a \in Amounts : PlaceBidCall(t, u, a)
    \/ \E t \in Tasks : PlaceBidTxn(t)
    \/ \E t \in Tasks : PlaceBidCommit(t)
    \/ \E t \in Tasks, u \in Users, a \in Amounts : OtherPlaceBidCall(t, u, a)
    \/ \E t \in Tasks : OtherPlaceBidTxn(t)
    \/ \E t \in Tasks : OtherPlaceBidCommit(t)
    \/ \E t \in Tasks : OtherSettleTxn(t)
    \/ \E t \in Tasks : OtherSettleCommit(t)
    \/ \E t \in Tasks : WithLockRelease(t)

SpecOther == InitOther /\ [][NextOther]_vars

(* Bid admission with four bidders and an anti-sniping window of one      *)
(* clock unit, followed while round 1 is open: no close-round job comes   *)
(* due before the horizon.                                                *)
InitSnipe == InitWith(<<PoorBalance, PoorBalance, PoorBalance, PoorBalance>>,
                      [deposits |-> 0, expiries |-> 0, horizon |-> SnipeTime,
                       bidders |-> Users, window |-> ShortWindow, faults |-> 0, settlements |-> 0])

NextSnipe ==
    \/ Tick
    \/ \E t \in Tasks : StartAuctionTxn(t)
    \/ \E t \in Tasks : StartAuctionCommit(t)
    \/ \E t \in Tasks, u \in Users, a \in Amounts : PlaceBidCall(t, u, a)
    \/ \E t \in Tasks : PlaceBidTxn(t)
    \/ \E t \in Tasks : PlaceBidCommit(t)
    \/ \E t \in Tasks : WithLockRelease(t)

SpecSnipe == InitSnipe /\ [][NextSnipe]_vars

(* The engine with its scheduling: the clock advances, a request or job   *)
(* handler that has started runs on to its end, Bull delivers a delayed   *)
(* job whose delay has passed, and the poller starts a pending auction.   *)
(* Nothing obliges a user to place a bid.                                 *)
Fairness ==
    /\ WF_vars(Tick)
    /\ \A t \in Tasks :
          /\ WF_vars(StartAuctionTxn(t))
          /\ WF_vars(StartAuctionCommit(t))
          /\ WF_vars(PlaceBidTxn(t))
          /\ WF_vars(PlaceBidCommit(t))
          /\ WF_vars(\E r \in RoundIds : JobFire(t, r))
          /\ WF_vars(ProcessRoundTxn(t))
          /\ WF_vars(ProcessRoundCommit(t))
          /\ WF_vars(ProcessRoundAfterCommit(t))
          /\ WF_vars(ProcessRoundCatch(t))
          /\ WF_vars(WithLockRelease(t))

SpecFair == Init /\ [][Next]_vars /\ Fairness

(* setInterval(startOverdueAuctions, 5000): the poller keeps calling       *)
(* startAuction while the auction is pending, and a startAuction that has *)
(* run its transaction body goes on to its commit.  Nothing else is       *)
(* assumed: users need not bid and the clock need not advance.            *)
PollerFairness ==
    /\ WF_vars(\E t \in Tasks : StartAuctionTxn(t))
    /\ \A t \in Tasks : WF_vars(StartAuctionCommit(t))

SpecPoll == InitRestart /\ [][NextRestart]_vars /\ PollerFairness

(* ============================ properties ============================== *)
Quiescent == \A t \in Tasks : task[t].pc = "idle"

BidsOfUser(u, st) == {i \in 1..Len(bids) : bids[i].userId = u /\ bids[i].status = st}
AmountOf == [i \in 1..Len(bids) |-> bids[i].amount]
WonAmount(u) == SumOver(BidsOfUser(u, "won"), AmountOf)

(* C1, I-MONEY: whenever no operation is in progress, each user's         *)
(* available + frozen balance equals the user's deposits minus the        *)
(* amounts of the user's won bids.                                        *)
IMoney ==
    Quiescent =>
        \A u \in Users :
            users[u].balance + users[u].frozenBalance = deposited[u] - WonAmount(u)

IUnique ==
    Cardinality({r \in RoundIds : rounds[r].status \in {"active", "processing"}}) <= 1

(* Rank order as the claims state it: amount descending, then createdAt   *)
(* ascending.                                                             *)
Outranks(a, b) ==
    IF a.amount # b.amount THEN a.amount > b.amount ELSE a.createdAt < b.createdAt

(* C4, I-ORDER: when a settlement has committed, of the n active bids it  *)
(* fetched exactly min(winnersCount, n) are won, no refunded bid outranks *)
(* a won one, and every other fetched bid is refunded.                    *)
IOrder ==
    \A t \in Tasks :
        task[t].pc = "pr_after" =>
            LET S == task[t].fetched
                W == {i \in S : bids[i].status = "won"}
            IN /\ Cardinality(W) = Min(rounds[task[t].round].winnersCount, Cardinality(S))
               /\ \A l \in S \ W : bids[l].status = "refunded"
               /\ \A w \in W, l \in S \ W : ~Outranks(bids[l], bids[w])

(* A settlement with more bids than items, the loser tying the winner in  *)
(* amount.                                                                *)
WitnessIOrder ==
    \E t \in Tasks :
        /\ task[t].pc = "pr_after"
        /\ \E w, l \in task[t].fetched :
              /\ bids[w].status = "won" /\ bids[l].status = "refunded"
              /\ bids[w].amount = bids[l].amount
              /\ bids[w].createdAt < bids[l].createdAt

(* C5: a completed round has no active bid left (every accepted bid was   *)
(* settled with its round).                                               *)
CompletedRoundSettled ==
    \A i \in 1..Len(bids) :
        rounds[bids[i].roundId].status = "completed" => bids[i].status # "active"

(* C6: every bid's amount is the sum of the amounts of the accepted       *)
(* placeBid calls of its user in its round, and each accepted call adds   *)
(* exactly its amount to the user's frozen balance.                       *)
RaisesAdd ==
    /\ [](\A i \in 1..Len(bids) :
            bids[i].amount = accepted[bids[i].roundId][bids[i].userId])
    /\ [][\A t \in Tasks :
            (task[t].pc = "pb_commit" /\ task'[t].pc = "pb_release"
                /\ accepted' # accepted) =>
                users'[task[t].user].frozenBalance =
                    users[task[t].user].frozenBalance + task[t].amount]_vars

(* Two accepted calls of one user in one round.                           *)
WitnessRaisesAdd ==
    \E r \in RoundIds, u \in Users :
        /\ accepted[r][u] > MaxAmount
        /\ users[u].frozenBalance = accepted[r][u]

(* C7, I-ONE-BID: no two bid records share (round, user).                 *)
IOneBid ==
    \A i, j \in 1..Len(bids) :
        (bids[i].roundId = bids[j].roundId /\ bids[i].userId = bids[j].userId) => i = j

(* A second submission raised the one record of its user.                 *)
WitnessIOneBid ==
    /\ Len(bids) = 1
    /\ bids[1].amount > MaxAmount
    /\ Quiescent

Holding(t, k) == task[t].pc \in FnPcs \cup ReleasePcs /\ task[t].key = k

(* C8: for a key whose holders all ended within the TTL, at most one task *)
(* is inside withLock, and the key is set only while a task is inside     *)
(* (it is released on return and on throw).                               *)
MutualExclusion ==
    \A k \in LockKeys :
        k \notin ttlExceeded =>
            /\ Cardinality({t \in Tasks : Holding(t, k)}) <= 1
            /\ lock[k] => \E t \in Tasks : Holding(t, k)

(* A second delivery of a close-round job waits while the first holds the *)
(* round's key.                                                           *)
WitnessMutualExclusion ==
    \E t \in Tasks, r \in RoundIds :
        /\ Holding(t, RoundKey(r))
        /\ lock[RoundKey(r)]
        /\ RoundKey(r) \notin ttlExceeded
        /\ jobs[r].state = "delayed"

(* C9, safe release: a release deletes the key only when the key was set  *)
(* by the releasing task.                                                 *)
SafeRelease ==
    [][\A t \in Tasks :
         (task[t].pc \in ReleasePcs /\ task'[t].pc = "idle"
            /\ task[t].acquired /\ lock[task[t].key])
         => lockOwner[task[t].key] = t]_vars

(* C10: while round #1 is active, a close-round job for it exists,        *)
(* scheduled at its endAt.                                                *)
FirstRoundJobScheduled ==
    rounds[1].status = "active" =>
        /\ jobs[1].state \in {"delayed", "active"}
        /\ jobs[1].runAt = rounds[1].endAt
FailedRun(r) == \E t \in Tasks : task[t].pc = "pr_catch" /\ task[t].round = r

(* C11: a round whose processRound run failed part-way is retried until   *)
(* it is completed.                                                       *)
FailedRunRetried ==
    \A r \in RoundIds : FailedRun(r) ~> rounds[r].status = "completed"
(* C12, I-MONO: no step decreases the endAt of a round.                   *)
IMono ==
    [][\A r \in RoundIds : rounds'[r].endAt >= rounds[r].endAt]_vars

(* Two users triggered the extension of one round concurrently: one has   *)
(* committed it, the other is about to commit on its older snapshot.      *)
WitnessIMono ==
    \E t \in Tasks, r \in RoundIds :
        /\ task[t].pc = "pb_commit"
        /\ r \in DOMAIN task[t].txn.wRounds
        /\ RoundDoc(r) \in task[t].txn.stale
        /\ rounds[r].endAt > rounds[r].originalEndAt
        /\ \E i \in ActiveBidsOf(bids, r) : bids[i].userId # task[t].user
(* The bids of round r that strictly outrank bid b, in the view bs.       *)
OutrankingBids(bs, r, b) == {i \in ActiveBidsOf(bs, r) : Outranks(bs[i], b)}

(* The bids of other users in round r that bid b does not outrank.        *)
NotOutrankedBids(bs, r, b) ==
    {i \in ActiveBidsOf(bs, r) : bs[i].userId # b.userId /\ ~Outranks(b, bs[i])}

JobAtEndAt ==
    Quiescent =>
        \A r \in RoundIds :
            (rounds[r].status = "active" /\ jobs[r].state = "delayed") =>
                jobs[r].runAt = rounds[r].endAt
(* C15: a placeBid that reaches the balance check (auction active, amount *)
(* at least minBid, round open) with an amount above the user's available *)
(* balance throws 'Insufficient balance', and neither the throw nor the   *)
(* return to the caller changes the users, the ledger, the bids, the      *)
(* rounds or the queue.                                                   *)
InsufficientFundsRejected ==
    /\ [][\A t \in Tasks :
            (/\ task[t].pc = "pb_txn" /\ task'[t].pc # "pb_txn"
             /\ auction.status = "active" /\ task[t].amount >= auction.minBid
             /\ ActiveRounds # {}
             /\ \A r \in ActiveRounds : now <= rounds[r].endAt
             /\ task[t].amount > users[task[t].user].balance)
            => /\ task'[t].pc = "pb_release"
               /\ task'[t].error = "Insufficient balance"
               /\ UNCHANGED <<users, ledger, bids, rounds, jobs>>]_vars
    /\ [][\A t \in Tasks :
            (/\ task[t].pc = "pb_release" /\ task'[t].pc = "idle"
             /\ task[t].error = "Insufficient balance")
            => UNCHANGED <<users, ledger, bids, rounds, jobs>>]_vars

(* A raise was rejected for insufficient funds: the user has an active    *)
(* bid in the open round.                                                 *)
WitnessInsufficientFunds ==
    \E t \in Tasks :
        /\ task[t].pc = "pb_release"
        /\ task[t].error = "Insufficient balance"
        /\ \E r \in ActiveRounds : ExistingBids(r, task[t].user) # {}
(* C16: every user's available and frozen balances are >= 0.              *)
NonNegativeBalances ==
    \A u \in Users : users[u].balance >= 0 /\ users[u].frozenBalance >= 0

(* One user has bids in flight on both auctions that together exceed the  *)
(* available balance, each having passed its balance check.               *)
WitnessNonNegativeBalances ==
    \E t1, t2 \in Tasks :
        /\ task[t1].pc = "pb_commit" /\ task[t2].pc = "ob_commit"
        /\ task[t1].user = task[t2].user
        /\ task[t1].amount + task[t2].amount > users[task[t1].user].balance
(* C17: the save of a deposit adds the deposit's amount to the available  *)
(* balance as it is at that time, whatever was committed since the        *)
(* deposit read the user, and adds one ledger entry of type deposit.      *)
DepositLosesNoUpdate ==
    [][\A t \in Tasks :
         (task[t].pc = "dp_save" /\ task'[t].pc = "idle") =>
             LET u == task[t].user
             IN /\ users'[u].balance = users[u].balance + task[t].amount
                /\ users'[u].frozenBalance = users[u].frozenBalance
                /\ ledger'[u]["deposit"] = ledger[u]["deposit"] + 1]_vars
Skipping(t) == task[t].pc = "pr_release" /\ task[t].error = "not active, skipping"

StartAuctionStep(t) ==
    \/ task[t].pc = "idle" /\ task'[t].pc \in {"sa_commit", "sa_null"}
    \/ task[t].pc \in {"sa_commit", "sa_null"} /\ task'[t].pc = "idle"

(* C19: startAuction changes state only when the auction is pending.  A   *)
(* call that finds the auction started, and the commit of a call that     *)
(* began while the auction was pending and was overtaken by another call, *)
(* leave the auction, its currentRound, the rounds, the bids, the wallets *)
(* and the jobs as they are: no second round #1 is written.               *)
StartAuctionIdempotent ==
    [][\A t \in Tasks :
          (StartAuctionStep(t) /\ auction.status # "pending")
          => UNCHANGED <<auction, rounds, bids, users, ledger, jobs>>]_vars

(* Round 1 is settled and a call of startAuction has found the auction    *)
(* not pending.                                                           *)
WitnessStartAuctionIdempotent ==
    /\ rounds[1].status = "completed"
    /\ \E t \in Tasks : task[t].pc = "sa_null"

(* C20: a round that has reached status completed never becomes active or *)
(* processing again: in every step, a completed round stays completed.    *)
CompletedIsTerminal ==
    [][\A r \in RoundIds :
          rounds[r].status = "completed" => rounds'[r].status = "completed"]_vars

(* The bids with status won, and the bids that a step turns into won.     *)
WonBids == {i \in 1..Len(bids) : bids[i].status = "won"}
NewlyWon == {i \in 1..Len(bids) : bids[i].status # "won" /\ bids'[i].status = "won"}

(* C21: the itemNumber values of the won bids are pairwise distinct and   *)
(* are exactly 1..distributedItems; the bids a settlement turns into won  *)
(* are numbered in rank order from the distributedItems + 1 of that time. *)
ItemNumbersSequential ==
    /\ [](\A i, j \in WonBids : i # j => bids[i].itemNumber # bids[j].itemNumber)
    /\ []({bids[i].itemNumber : i \in WonBids} = 1..auction.distributedItems)
    /\ [][/\ {bids'[i].itemNumber : i \in NewlyWon} =
               (auction.distributedItems + 1)..(auction.distributedItems
                                                  + Cardinality(NewlyWon))
          /\ \A i, j \in NewlyWon :
                Before(bids[i], bids[j])
                    => bids'[i].itemNumber < bids'[j].itemNumber]_vars

(* Two bids have won in round 1 and a bid has won in round 2.             *)
WitnessItemNumbersSequential ==
    /\ \E i, j \in WonBids : i # j /\ bids[i].roundId = 1 /\ bids[j].roundId = 1
    /\ \E k \in WonBids : bids[k].roundId = 2

(* C22: the commit of the settlement of round n with newDistributed items *)
(* awarded in total creates round n + 1 (active, winnersCount =           *)
(* min(itemsPerRound, totalItems - newDistributed)) and makes it the      *)
(* currentRound when newDistributed < totalItems and n < totalRounds, and *)
(* otherwise creates no round and completes the auction; after the        *)
(* commit the queue holds the close-round job of the new round, due at    *)
(* its endAt; every round is created with the winnersCount               *)
(* min(itemsPerRound, totalItems - bids won so far): 2, 2, 1 for 5 items  *)
(* in 3 rounds of 2 when rounds 1 and 2 have two winners each.            *)
NextRoundCreated ==
    /\ [][\A t \in Tasks :
            (task[t].pc = "pr_commit" /\ task'[t].pc = "pr_after")
            => LET n == task[t].round
                   newDistributed == auction'.distributedItems
               IN IF newDistributed < auction.totalItems /\ n < auction.totalRounds
                  THEN /\ rounds[n + 1].status = "none"
                       /\ rounds'[n + 1].status = "active"
                       /\ rounds'[n + 1].winnersCount =
                             Min(auction.itemsPerRound,
                                 auction.totalItems - newDistributed)
                       /\ rounds'[n + 1].endAt = rounds'[n + 1].originalEndAt
                       /\ rounds'[n + 1].endAt <= now + OtherRoundDuration
                       /\ auction'.currentRound = n + 1
                       /\ auction'.status = "active"
                       /\ \A q \in RoundIds \ {n, n + 1} : rounds'[q] = rounds[q]
                  ELSE /\ \A q \in RoundIds \ {n} : rounds'[q] = rounds[q]
                       /\ auction'.status = "completed"]_vars
    /\ [][\A t \in Tasks :
            (/\ task[t].pc = "pr_after" /\ task'[t].pc = "pr_release"
             /\ task[t].next # None)
            => /\ jobs'[task[t].next].state # "none"
               /\ jobs[task[t].next].state = "none"
                    => /\ jobs'[task[t].next].state = "delayed"
                       /\ jobs'[task[t].next].runAt =
                             Max(now, rounds[task[t].next].endAt)]_vars
    /\ [][\A r \in RoundIds :
            (rounds[r].status = "none" /\ rounds'[r].status # "none")
            => rounds'[r].winnersCount =
                 Min(auction.itemsPerRound,
                     auction.totalItems - Cardinality(WonBids'))]_vars

(* 5 items in 3 rounds of 2: the rounds have winnersCount 2, 2 and 1, and *)
(* the close-round job of round 3 is in the queue.                        *)
WitnessNextRoundCreated ==
    /\ auction.totalItems = 5 /\ auction.totalRounds = 3
    /\ auction.itemsPerRound = 2
    /\ rounds[1].winnersCount = 2 /\ rounds[2].winnersCount = 2
    /\ rounds[3].status = "active" /\ rounds[3].winnersCount = 1
    /\ auction.currentRound = 3
    /\ jobs[3].state = "delayed"

(* The won bids of the auction (the second auction's bids are on          *)
(* OtherRound).                                                           *)
WonBidsOfAuction == {i \in WonBids : bids[i].roundId \in RoundIds}

RoundBidsOf(r, u) == {i \in ActiveBidsOf(bids, r) : bids[i].userId = u}

(* The wallet of user u after the bid i of u was settled as the status    *)
(* st: frozen decreases by the amount, and available grows by it unless   *)
(* the bid has won.                                                       *)
SettledWallet(u, i, st) ==
    [balance |-> IF st = "won" THEN users[u].balance
                 ELSE users[u].balance + bids[i].amount,
     frozenBalance |-> users[u].frozenBalance - bids[i].amount]

(* C25: the commit of the settlement of a round takes the bid amount from *)
(* the frozen balance of each winner and leaves the available balance,    *)
(* moves the full bid amount from the frozen to the available balance of  *)
(* every other bidder of the round, and leaves the users without a bid in *)
(* the round untouched.                                                   *)
SettlementBalances ==
    [][\A t \in Tasks :
          (task[t].pc = "pr_commit" /\ task'[t].pc = "pr_after")
          => \A u \in Users :
                IF RoundBidsOf(task[t].round, u) = {}
                THEN users'[u] = users[u]
                ELSE \A i \in RoundBidsOf(task[t].round, u) :
                        /\ bids'[i].status \in {"won", "refunded"}
                        /\ users'[u] = SettledWallet(u, i, bids'[i].status)]_vars

(* C26: the commit of the settlement of a round that has no active bid    *)
(* changes no bid, no wallet and no ledger entry, leaves distributedItems *)
(* and avgPrice as they are, and creates the next round when items remain *)
(* and the round is not the last one (otherwise it completes the          *)
(* auction).                                                              *)
EmptyRoundSettlement ==
    [][\A t \in Tasks :
          (/\ task[t].pc = "pr_commit" /\ task'[t].pc = "pr_after"
           /\ ActiveBidsOf(bids, task[t].round) = {})
          => /\ UNCHANGED <<bids, users, ledger>>
             /\ auction'.distributedItems = auction.distributedItems
             /\ auction'.avgPriceNum = auction.avgPriceNum
             /\ IF /\ auction.distributedItems < auction.totalItems
                   /\ task[t].round < auction.totalRounds
                THEN /\ rounds'[task[t].round + 1].status = "active"
                     /\ auction'.currentRound = task[t].round + 1
                     /\ auction'.status = "active"
                ELSE auction'.status = "completed"]_vars

(* Round 2 was settled without a bid and round 3 is open.                 *)
WitnessEmptyRoundSettlement ==
    /\ rounds[2].status = "completed"
    /\ \A i \in 1..Len(bids) : bids[i].roundId # 2
    /\ rounds[3].status = "active"
    /\ auction.currentRound = 3

(* The database and the queue, which a rejected call must leave alone.    *)
Stored == <<auction, rounds, bids, users, ledger, jobs>>

(* C27: placeBid on an active auction throws 'Minimum bid' for every      *)
(* amount below minBid, whether or not the user has an active bid in the  *)
(* round, and the call changes nothing up to its return; an amount equal  *)
(* to minBid is never rejected as below the minimum, and is admitted to   *)
(* the commit when the round is open and the user can pay.                *)
MinimumBidBoundary ==
    /\ [][\A t \in Tasks :
            (/\ task[t].pc = "pb_txn" /\ task'[t].pc # "pb_txn"
             /\ auction.status = "active" /\ task[t].amount < auction.minBid)
            => /\ task'[t].pc = "pb_release"
               /\ task'[t].error = "Minimum bid"
               /\ UNCHANGED Stored]_vars
    /\ [][\A t \in Tasks :
            (/\ task[t].pc = "pb_release" /\ task'[t].pc = "idle"
             /\ task[t].error = "Minimum bid")
            => UNCHANGED Stored]_vars
    /\ [][\A t \in Tasks :
            (/\ task[t].pc = "pb_txn" /\ task'[t].pc # "pb_txn"
             /\ task[t].amount = auction.minBid)
            => /\ task'[t].error # "Minimum bid"
               /\ (/\ auction.status = "active"
                   /\ \A r \in ActiveRounds : now <= rounds[r].endAt
                   /\ ActiveRounds # {}
                   /\ users[task[t].user].balance >= task[t].amount
                   /\ \A r \in ActiveRounds :
                         \/ ExistingBids(r, task[t].user) # {}
                         \/ UniqueBidIndex(bids, r, task[t].user)
                   /\ \A r \in ActiveRounds : CanReschedule(jobs, r))
                   => task'[t].pc = "pb_commit"]_vars

(* A user whose bid of minBid and whose raise by minBid were both        *)
(* accepted in the open round has a raise below minBid rejected.          *)
WitnessMinimumBidBoundary ==
    \E t \in Tasks, r \in ActiveRounds :
        /\ task[t].pc = "pb_release" /\ task[t].error = "Minimum bid"
        /\ task[t].amount = auction.minBid - 1
        /\ \E i \in ExistingBids(r, task[t].user) :
              bids[i].amount = 2 * auction.minBid
        /\ accepted[r][task[t].user] = 2 * auction.minBid

EntryErrors == {"Auction not active", "No active round", "Round has ended"}

(* C28: placeBid throws 'Auction not active' when the auction is not      *)
(* active, 'No active round' when the active auction has no active round  *)
(* and 'Round has ended' when now > endAt of the active round; at         *)
(* now <= endAt, and so at now = endAt, none of the three is thrown and   *)
(* the bid reaches its commit when the user can pay.  A call rejected     *)
(* with one of the three changes nothing up to its return.                *)
EntryRejections ==
    /\ [][\A t \in Tasks :
            (task[t].pc = "pb_txn" /\ task'[t].pc # "pb_txn") =>
              LET a == task[t].amount
                  e == task'[t].error
              IN /\ auction.status # "active" => e = "Auction not active"
                 /\ (/\ auction.status = "active" /\ a >= auction.minBid
                     /\ ActiveRounds = {}) => e = "No active round"
                 /\ (/\ auction.status = "active" /\ a >= auction.minBid
                     /\ ActiveRounds # {}
                     /\ \A r \in ActiveRounds : now > rounds[r].endAt)
                    => e = "Round has ended"
                 /\ (/\ auction.status = "active"
                     /\ ActiveRounds # {}
                     /\ \A r \in ActiveRounds : now <= rounds[r].endAt)
                    => /\ e \notin EntryErrors
                       /\ (/\ a >= auction.minBid
                           /\ users[task[t].user].balance >= a
                           /\ \A r \in ActiveRounds :
                                 /\ CanReschedule(jobs, r)
                                 /\ \/ ExistingBids(r, task[t].user) # {}
                                    \/ UniqueBidIndex(bids, r, task[t].user))
                          => task'[t].pc = "pb_commit"
                 /\ e \in EntryErrors
                    => task'[t].pc = "pb_release" /\ UNCHANGED Stored]_vars
    /\ [][\A t \in Tasks :
            (/\ task[t].pc = "pb_release" /\ task'[t].pc = "idle"
             /\ task[t].error \in EntryErrors)
            => UNCHANGED Stored]_vars

(* A user whose bid was placed at the very end of the round, and so was   *)
(* admitted, is rejected once the clock has passed the round's end.       *)
WitnessEntryRejections ==
    \E t \in Tasks, r \in ActiveRounds :
        /\ task[t].pc = "pb_release" /\ task[t].error = "Round has ended"
        /\ now > rounds[r].endAt
        /\ \E i \in ExistingBids(r, task[t].user) :
              bids[i].createdAt = rounds[r].originalEndAt

(* C29: when a worker process has started, every round with status active *)
(* has a close-round job in the queue.                                    *)
WorkerStartSchedulesRounds ==
    [][budget'.starts < budget.starts
       => \A r \in RoundIds :
             rounds'[r].status = "active" => jobs'[r].state # "none"]_vars

(* C30: a pending auction whose startAt has passed is eventually active   *)
(* with round 1 open.                                                     *)
OverdueAuctionStarted ==
    IsPending(auction) ~>
        (auction.status = "active" /\ auction.currentRound = 1
         /\ rounds[1].status = "active")

(* Worker start-up and the poller have both called startAuction on the   *)
(* overdue auction: one call has started it, round 1 is open, and the     *)
(* other call is about to fail at its commit.                             *)
WitnessOverdueAuctionStarted ==
    /\ auction.status = "active" /\ auction.currentRound = 1
    /\ rounds[1].status = "active"
    /\ budget.starts < MaxStarts
    /\ \E t \in Tasks : task[t].pc = "sa_commit" /\ WriteConflict(task[t].txn)

RoundEvents(p) == <<p.roundEnd, p.roundStart, p.auctionComplete>>

(* round:end of round r is published by this step.                        *)
PublishesRoundEnd(r) == published'.roundEnd[r] # published.roundEnd[r]

BidEvents(p) == <<p.bidNew, p.antiSnipe, p.leaderboard>>

(* An event of a bid is published by this step.                           *)
PublishesBidEvent == BidEvents(published') # BidEvents(published)

(* C32: the events of a bid are published only by a placeBid whose        *)
(* transaction has committed and after its lock bid:{auctionId}:{userId}  *)
(* has been released; a placeBid that ends with an error before its       *)
(* commit publishes nothing.                                              *)
BidEventsAfterRelease ==
    /\ [][PublishesBidEvent =>
            \E t \in Tasks :
                /\ task[t].pc = "pb_after" /\ task'[t].pc # "pb_after"
                /\ accepted[task[t].round][task[t].user] >= task[t].amount
                /\ ~(lock[task[t].key] /\ lockOwner[task[t].key] = t)]_vars
    /\ [][\A t \in Tasks :
            (task[t].pc \in {"pb_txn", "pb_commit"} /\ task'[t].error # "none")
            => ~PublishesBidEvent]_vars

(* startAuction commits its transaction in this step.                     *)
StartAuctionSucceeds == IsPending(auction) /\ auction'.status = "active"

(* C33: the step in which startAuction commits publishes auction:start    *)
(* and round:start of round 1, neither is published more than once, and   *)
(* a startAuction that finds the auction not pending or fails at its      *)
(* commit publishes nothing.                                              *)
AuctionStartPublished ==
    /\ [][StartAuctionSucceeds
            => /\ published'.auctionStart = published.auctionStart + 1
               /\ published'.roundStart[1] = published.roundStart[1] + 1]_vars
    /\ [](published.auctionStart <= 1 /\ published.roundStart[1] <= 1)
    /\ [][~StartAuctionSucceeds
            => /\ published'.auctionStart = published.auctionStart
               /\ published'.roundStart[1] = published.roundStart[1]]_vars

(* placeBid of task t calls rescheduleRoundProcessing in this step: it    *)
(* goes on to its commit with the round's new endAt written, or the       *)
(* removal of the old job throws.                                         *)
Reschedules(t) ==
    /\ task[t].pc = "pb_txn"
    /\ \/ task'[t].pc = "pb_commit" /\ AntiSnipingTriggered(task'[t].txn)
       \/ task'[t].error = "Could not remove job"

(* C34: a reschedule leaves the round's job delayed at the new end of the *)
(* round, whatever the state of the old job, and a schedule of a job id   *)
(* that is in the queue changes nothing.                                  *)
OneJobPerRound ==
    /\ [][\A t \in Tasks : Reschedules(t) =>
            \A r \in ActiveRounds :
                /\ jobs'[r].state = "delayed"
                /\ jobs'[r].runAt = ExtendedEndAt(rounds[r].endAt)]_vars
    /\ [][\A t \in Tasks :
            (/\ task[t].pc = "pr_after" /\ task'[t].pc # "pr_after"
             /\ task[t].next # None /\ jobs[task[t].next].state # "none")
            => jobs' = jobs]_vars

(* The ranks getUserBidRank gives to the users with an active bid in r.   *)
RanksOf(r) == {getUserBidRank(r, bids[i].userId) : i \in ActiveBidsOf(bids, r)}

(* C35: the ranks of the active bids of an active round are 1..n, a rank  *)
(* for each bid, and a settlement that commits on these bids makes won    *)
(* exactly the bids whose rank is at most the round's winnersCount.       *)
RanksAreDense ==
    /\ [](\A r \in ActiveRounds :
            RanksOf(r) = 1..Cardinality(ActiveBidsOf(bids, r)))
    /\ [][\A t \in Tasks :
            (/\ task[t].pc = "pr_commit" /\ task'[t].pc = "pr_after"
             /\ rounds[task[t].round].status = "active"
             /\ task[t].fetched = ActiveBidsOf(bids, task[t].round))
            => \A i \in task[t].fetched :
                  bids'[i].status = "won" <=>
                     getUserBidRank(task[t].round, bids[i].userId)
                        <= rounds[task[t].round].winnersCount]_vars

(* Bids i and j are told apart by neither key of the order.               *)
Tied(i, j) == bids[i].amount = bids[j].amount /\ bids[i].createdAt = bids[j].createdAt

(* C35, restated for bids equal in amount and createdAt: a bid's rank is  *)
(* 1 + the number of active bids of its round that outrank it, so tied    *)
(* bids share a rank and the ranks are 1..n when no two bids are tied; a  *)
(* settlement that commits on these bids makes won min(winnersCount, n)   *)
(* of them, each of rank at most winnersCount, and a bid of such a rank   *)
(* that is not won is tied with one that is.                              *)
RanksUpToTies ==
    /\ [](\A r \in ActiveRounds : \A i \in ActiveBidsOf(bids, r) :
            LET S == ActiveBidsOf(bids, r)
                rank == getUserBidRank(r, bids[i].userId)
            IN /\ rank = 1 + Cardinality(OutrankingBids(bids, r, bids[i]))
               /\ rank \in 1..Cardinality(S)
               /\ (\A a, b \in S : Tied(a, b) => a = b)
                     => RanksOf(r) = 1..Cardinality(S))
    /\ [][\A t \in Tasks :
            (/\ task[t].pc = "pr_commit" /\ task'[t].pc = "pr_after"
             /\ rounds[task[t].round].status = "active"
             /\ task[t].fetched = ActiveBidsOf(bids, task[t].round))
            => LET r == task[t].round
                   S == task[t].fetched
                   W == {i \in S : bids'[i].status = "won"}
                   top == {i \in S : getUserBidRank(r, bids[i].userId)
                                       <= rounds[r].winnersCount}
               IN /\ Cardinality(W) = Min(rounds[r].winnersCount, Cardinality(S))
                  /\ W \subseteq top
                  /\ \A i \in top \ W : \E w \in W : Tied(i, w)]_vars

(* A settlement is about to commit on the two active bids of its round,   *)
(* which have the ranks 1 and 2, for one item.                            *)
WitnessRanksUpToTies ==
    \E t \in Tasks :
        /\ task[t].pc = "pr_commit" /\ ~WriteConflict(task[t].txn)
        /\ rounds[task[t].round].status = "active"
        /\ rounds[task[t].round].winnersCount = 1
        /\ task[t].fetched = ActiveBidsOf(bids, task[t].round)
        /\ RanksOf(task[t].round) = {1, 2}

(* C36: when every attempt of withLock finds the key set, the call ends   *)
(* after exactly MaxAttempts attempts with the error "Failed to acquire   *)
(* lock": fn was never entered in that call, nothing is attempted after   *)
(* the last failure, and neither the failing attempt nor the throw        *)
(* changes the key or its owner, which is another task.                   *)
LockTimeout ==
    [][\A t \in Tasks :
        /\ (task[t].pc = "wl_acquire" /\ task'[t].pc = "wl_throw")
              => /\ lock[task[t].key] /\ lockOwner[task[t].key] # t
                 /\ task'[t].attempts = MaxAttempts
                 /\ task'[t].error = "Failed to acquire lock"
                 /\ ~task'[t].acquired
                 /\ UNCHANGED <<lock, lockOwner, Stored>>
        /\ (task[t].pc = "wl_acquire" /\ task'[t].pc = "wl_acquire" /\ task'[t] # task[t])
              => /\ task'[t].attempts < MaxAttempts
                 /\ UNCHANGED <<lock, lockOwner, Stored>>
        /\ (task[t].pc # "wl_acquire" /\ task'[t].pc = "wl_acquire")
              => task[t].pc = "idle" /\ task'[t].attempts = 0
        /\ (task'[t].pc = "wl_throw") => task[t].pc \in {"wl_acquire", "wl_throw"}
        /\ (task[t].pc = "wl_throw" /\ task'[t] # task[t])
              => /\ task'[t] = IdleTask
                 /\ UNCHANGED <<lock, lockOwner, Stored>>]_vars

(* The call of one task has failed on the lock while the other task is    *)
(* inside fn and still holds the key.                                     *)
WitnessLockTimeout ==
    \E t, t2 \in Tasks :
        /\ task[t].pc = "wl_throw"
        /\ task[t2].pc \in FnPcs
        /\ task[t2].key = task[t].key
        /\ lock[task[t].key] /\ lockOwner[task[t].key] = t2


(* Bid.find({userId, status: 'active'}): the amounts a user has at stake. *)
ActiveAmount(u) == SumOver(BidsOfUser(u, "active"), AmountOf)

(* C37: whenever no operation is in progress, each user's frozen balance  *)
(* is the sum of the amounts of the user's active bids, over the rounds   *)
(* of both auctions.                                                      *)
FrozenIsActiveBids ==
    Quiescent => \A u \in Users : users[u].frozenBalance = ActiveAmount(u)


(* No operation is in progress; user 1 has an active bid on round 1 and a *)
(* refunded one on the other auction, whose round user 2 has won.         *)
WitnessFrozenIsActiveBids ==
    /\ Quiescent
    /\ \E i \in BidsOfUser(1, "active") :
          bids[i].roundId = 1 /\ users[1].frozenBalance = bids[i].amount
    /\ \E i \in BidsOfUser(1, "refunded") : bids[i].roundId = OtherRound
    /\ \E i \in BidsOfUser(2, "won") : bids[i].roundId = OtherRound

(* The committed status of round r leaves active: its settlement.         *)
SettlementBegins(r) == rounds[r].status = "active" /\ rounds'[r].status # "active"

PlaceBidFails(t) ==
    /\ task[t].pc \in {"pb_txn", "pb_commit", "pb_after"}
    /\ task'[t].pc = "pb_release" /\ task'[t].error # "none"

(* C39: a placeBid call that ends with an error has not committed its     *)
(* transaction (no bid created or raised, no funds frozen, endAt as it    *)
(* was), has not replaced the close-round job, and the step that throws   *)
(* writes nothing.                                                        *)
ErrorMeansNoEffect ==
    [][\A t \in Tasks :
         PlaceBidFails(t) =>
            /\ task[t].pc # "pb_after"
            /\ ~AntiSnipingTriggered(task[t].txn)
            /\ UNCHANGED Stored]_vars


(* Every bid the round r has received, whatever became of it.             *)
BidsOfRound(r) == {i \in 1..Len(bids) : bids[i].roundId = r}

(* The rounds the auction has had.                                        *)
RoundsHad == 1..auction.currentRound

(* Every round of the auction received at least winnersCount bids.        *)
EveryRoundFilled ==
    \A r \in RoundsHad : Cardinality(BidsOfRound(r)) >= rounds[r].winnersCount

(* C40: an auction created with the default itemsPerRound, all of whose   *)
(* rounds received at least winnersCount bids, is completed with          *)
(* distributedItems = totalItems, after at most totalRounds rounds whose  *)
(* winnersCount values sum to totalItems.                                 *)
DefaultDistribution ==
    (auction.status = "completed" /\ EveryRoundFilled) =>
        /\ auction.distributedItems = auction.totalItems
        /\ auction.currentRound <= auction.totalRounds
        /\ SumOver(RoundsHad, [r \in RoundIds |-> rounds[r].winnersCount])
              = auction.totalItems

=========================================================================
